---------------------------- MODULE Spec2Model ----------------------------
(***************************************************************************)
(* The two NGC launch scripts of the repository (src/unnamed/part_000):    *)
(* the duration-predictor script ("durs", lines 1-93) and the QuartzNet    *)
(* script ("quartznet", lines 95-160).                                     *)
(*                                                                         *)
(* A shell string is modelled as a sequence of pieces (literal text and    *)
(* expansions, in order); the empty string is <<>>.  One state of the      *)
(* model is the shell (which script runs, at which line, its variables,    *)
(* its output and exit status), the log of the external commands the       *)
(* current execution has invoked, and the batch submissions the scheduler  *)
(* has received from all executions so far.                                *)
(*                                                                         *)
(* The three notebooks of the repository are a second state machine, and   *)
(* the step arithmetic of the durs script, over any operands, a third.     *)
(* Each has its own next-state relation; all start from Init.              *)
(***************************************************************************)
EXTENDS Integers, Sequences, FiniteSets, TLC

VARIABLES
  script,       \* the script being executed: "durs", "quartznet", "none"
  argv,         \* its positional arguments $1..$#, a sequence of strings
  cwd,          \* the working directory the script is started in (absolute)
  setupPy,      \* TRUE iff a regular file setup.py exists in the cwd
  WANDB_TOKEN,  \* the environment variable (<<>>: unset or empty)
  urandom,      \* the bytes /dev/urandom gives this execution, one piece each
  pc,           \* position in the script
  name_id,      \* shell variables of the script (<<>>: not assigned yet)
  num_id,
  id,
  tmp_dir,
  batch_size,   \* integer shell variables of durs (0: not assigned yet)
  total_steps,
  cmd,          \* the remote command: an && chain of simple commands
  stdout,       \* the lines echoed so far
  status,       \* exit status of the execution (-1: still running)
  cmds,         \* external commands invoked by this execution, in order
  runs,         \* number of executions started so far
  batchRuns     \* every `ngc batch run` invocation the scheduler has received

VARIABLES
  nb,               \* the notebook being run: "qa", "re", "punct" ("none": none)
  cell,             \* the code cell to run next; "done", "stopped" at the end
  model_type,       \* qa, re: the model chosen in the notebook
  present,          \* qa, re: the checkpoint paths os.path.exists found
  raised,           \* the exception that ended the run (NoError: none)
  calls,            \* library calls that returned and shell escapes, in order
  written,          \* files the notebook's own code has written, in order
  train_data_size,  \* len(train_data_layer) (-1: not taken yet)
  steps_per_epoch,  \* train_steps_per_epoch / steps_per_epoch
  lr_total_steps,   \* total steps given to the lr policy
  eval_step,        \* eval_step given to the evaluator callback
  test_dataset_idx, \* qa: the test batch chosen
  train_file,       \* qa: paths of the corpus files
  test_file,
  queries,          \* punct: the list of queries
  evaluated,        \* punct: for each query, its row of the evaluated tensors
  loop_i,           \* punct: i, the position of the decode loop in queries
  printed,          \* punct: lines the decode cell has printed
  nf,               \* qa, re, punct: the factory: its log_dir and checkpoint_dir
  ckpt_callback,    \* qa, punct: the checkpoint callback: its folder
  checkpoint_dir,   \* qa, punct: the checkpoint_dir given to nf.infer
  calc,             \* the step arithmetic of durs on its own: operands and results,
                    \* each a shell integer (its 8 bytes) or Unset
  job,              \* the container of one submission: the chain its shell was given
                    \* and the steps it has run so far, each with its exit status
  predict           \* the prediction cell of qa on its own: the line it is at, its
                    \* variables and the exception it raised

scriptVars == <<script, argv, cwd, setupPy, WANDB_TOKEN, urandom, pc, name_id, num_id, id,
                tmp_dir, batch_size, total_steps, cmd, stdout, status, cmds, runs,
                batchRuns>>

checkVars == <<model_type, present>>
sizeVars == <<train_data_size, steps_per_epoch, lr_total_steps, eval_step>>
qaVars == <<test_dataset_idx, train_file, test_file, written>>
punctVars == <<queries, evaluated, loop_i, printed>>
ckptVars == <<nf, ckpt_callback, checkpoint_dir>>
nbVars == <<nb, cell, raised, calls, checkVars, sizeVars, qaVars, punctVars, ckptVars>>

vars == <<scriptVars, nbVars, calc, job, predict>>

----------------------------------------------------------------------------
(* Bounds of the model. *)

\* executions of a launch script in one behaviour
MaxRuns == 2
\* positional arguments given to one execution
MaxArgs == 2

Scripts == {"durs", "quartznet"}
\* values of one positional argument: the empty string and two names
ArgValues == {<<>>, <<"exp1">>, <<"exp2">>}
\* values of the token variable: unset/empty and two tokens
TokenValues == {<<>>, <<"tokA">>, <<"tokB">>}
\* what /dev/urandom gives, as far as `head` reads it (ten lines): once with
\* more than 13 letters and digits among the bytes, once with fewer
RandomValues ==
  { <<"r", "4", "#", "n", "d", "0", "m", "\n", "A", "A", "A", "A", " ", "A", "A", "A",
      "z", "\n", "\n", "\n", "-", "\n", "\n", "\n", "\n", "\n", "\n">>,
    <<"r", "\n", "4", "n", "+", "\n", "d", "0", "\n", "\n", "\n", "m", "B", "\n",
      "\n", "\n", "\n", "\n">> }
\* working directories: a checkout in a home directory, and /tmp itself.
\* A path is cut into pieces at directory boundaries, so one directory lies
\* in another iff its pieces begin with the other's.
CwdValues == {<<"/home/user/NeMo">>, <<"/tmp">>}
\* exit statuses of an external command: success and failure
ExitCodes == {0, 1}

RECURSIVE SeqsUpTo(_, _)
SeqsUpTo(S, n) ==
  IF n = 0 THEN {<<>>}
  ELSE LET shorter == SeqsUpTo(S, n - 1)
       IN  shorter \cup {Append(q, e) : q \in {t \in shorter : Len(t) = n - 1}, e \in S}

ArgVectors == SeqsUpTo(ArgValues, MaxArgs)

----------------------------------------------------------------------------
(* CONSTS sections. *)

DURS_GPU_MEM == 32
DURS_NUM_GPU == 8
DATASET_SIZE == 354780
NUM_EPOCHS == 100
QN_GPU_MEM == 32
QN_NUM_GPU == 8

IMAGE(s) == <<"nvidian/pytorch:19.12-py3">>
GPU_MEM(s) == IF s = "durs" THEN DURS_GPU_MEM ELSE QN_GPU_MEM
NUM_GPU(s) == IF s = "durs" THEN DURS_NUM_GPU ELSE QN_NUM_GPU
OPT == <<"O2">>
WS(s) == <<"stan">>
WORKSPACE(s) == <<"/ws">>
RESULT(s) == <<"/result">>

\* $(basename "$0"): the file name of the script, written here as its label
Basename(s) == <<s>>

----------------------------------------------------------------------------
(* Validation, lines 3-16 and 97-105. *)

\* $n: the n-th positional argument, empty when there is none
Positional(a, n) == IF n <= Len(a) THEN a[n] ELSE <<>>

\* faulty variant of ArgCheckFails: the test of "$#" is left out
ArgCheckFails_NoCount(a) == Positional(a, 1) = <<>>

\* [[ -z $1 || "$#" -ne 1 ]]
ArgCheckFails(a) == Positional(a, 1) = <<>> \/ Len(a) # 1

UsageLine(s) == <<"Usage: ./">> \o Basename(s) \o <<" [experiment name id]">>

\* faulty variant of SetupCheckFails: the test is inverted, [ -f setup.py ]
SetupCheckFails_Inverted(f) == f

\* [ ! -f setup.py ]
SetupCheckFails(f) == ~f

RootMsg(s) ==
  IF s = "durs" THEN <<"Script should be ran from project root.">>
  ELSE <<"Script should be runned from project root.">>

\* only the durs script tests the token
ChecksToken(s) == s = "durs"

\* faulty variant of TokenCheckFails: the test is [[ -z "WANDB_TOKEN" ]], never true
TokenCheckFails_Never(t) == FALSE

\* [[ -z $WANDB_TOKEN ]]
TokenCheckFails(t) == t = <<>>

TokenMsg == <<"Please, provide WanDB token.">>


----------------------------------------------------------------------------
(* SAVE STATE sections, lines 32-43 and 116-127. *)

UpdatingMsg == <<"Updating source code...">>

\* the lines `head` prints when given no count
HeadLines == 10

RECURSIVE Head_(_, _)
\* head: the text up to and including its n-th line end
Head_(text, n) ==
  IF n = 0 \/ text = <<>> THEN <<>>
  ELSE <<Head(text)>> \o Head_(Tail(text), IF Head(text) = "\n" THEN n - 1 ELSE n)

\* A-Za-z0-9
Alnum ==
  { "A", "B", "C", "D", "E", "F", "G", "H", "I", "J", "K", "L", "M", "N", "O", "P", "Q",
    "R", "S", "T", "U", "V", "W", "X", "Y", "Z", "a", "b", "c", "d", "e", "f", "g", "h",
    "i", "j", "k", "l", "m", "n", "o", "p", "q", "r", "s", "t", "u", "v", "w", "x", "y",
    "z", "0", "1", "2", "3", "4", "5", "6", "7", "8", "9" }

\* tr -dc set: every byte outside the set is deleted
TrDeleteComplement(text, set) == SelectSeq(text, LAMBDA c : c \in set)

\* head -c n: the first n bytes, or all of them when there are fewer
HeadBytes(text, n) == SubSeq(text, 1, IF n < Len(text) THEN n ELSE Len(text))

\* num_id=$(head /dev/urandom | tr -dc A-Za-z0-9 | head -c 13)
NumId(bytes) == HeadBytes(TrDeleteComplement(Head_(bytes, HeadLines), Alnum), 13)

\* id=durs-lj_"${name_id}"_"${num_id}"   /   id="${name_id}"_"${num_id}"
RunId(s, name, num) ==
  IF s = "durs" THEN <<"durs-lj_">> \o name \o <<"_">> \o num
  ELSE name \o <<"_">> \o num

\* tmp_dir=/tmp/nemos/"${id}"
TmpDir(ident) == <<"/tmp", "/nemos/">> \o ident

TmpDirMsg(dir) == <<"Tmp dir: ">> \o dir

\* one entry of the log of external commands: the program, its argument
\* words, the remote command it carries (ngc batch run only), its exit status
Invocation(prog, args, text, rc) ==
  [prog |-> prog, args |-> args, text |-> text, rc |-> rc]

\* mkdir -p "${tmp_dir}"
MkdirArgs(dir) == << <<"-p">>, dir >>

\* faulty variant of RsyncArgs: source and destination are exchanged
RsyncArgs_Reversed(dir) ==
  << <<"-r">>, dir, <<".">>, <<"--exclude">>, <<".git">>,
     <<"--filter=:- .gitignore">> >>

\* rsync -r . "${tmp_dir}" --exclude .git --filter=":- .gitignore"
RsyncArgs(dir) ==
  << <<"-r">>, <<".">>, dir, <<"--exclude">>, <<".git">>,
     <<"--filter=:- .gitignore">> >>

\* faulty variant of UploadArgs: every execution uploads to nemos/ itself
UploadArgs_NoId(s, dir, ident) ==
  << WS(s), <<"--source">>, dir, <<"--destination">>, <<"nemos/">> >>

\* ngc workspace upload "${WS}" --source "${tmp_dir}" --destination nemos/"${id}"
UploadArgs(s, dir, ident) ==
  << WS(s), <<"--source">>, dir, <<"--destination">>, <<"nemos/">> \o ident >>

\* a path argument as the command sees it: "." is the working directory dir,
\* the other paths of the scripts are absolute
Resolve(path, dir) == IF path = <<".">> THEN dir ELSE path

\* the local paths an invoked command reads: rsync its source (2nd word),
\* the upload what --source names (3rd word)
Reads(inv, dir) ==
  CASE inv.prog = "rsync" -> {Resolve(inv.args[2], dir)}
    [] inv.prog = "ngc workspace upload" -> {Resolve(inv.args[3], dir)}
    [] OTHER -> {}

\* the local paths an invoked command creates or changes: mkdir -p the
\* directory it names, rsync its destination (3rd word) and what lies in it
Writes(inv, dir) ==
  CASE inv.prog = "mkdir" -> {Resolve(inv.args[2], dir)}
    [] inv.prog = "rsync" -> {Resolve(inv.args[3], dir)}
    [] OTHER -> {}

\* faulty variant of AfterCommand: as under `set -e`, a failed command ends the script
AfterCommand_Errexit(rc, next) == IF rc = 0 THEN next ELSE "exit"

\* faulty variant of AfterCommand: a failed command is run again
AfterCommand_Retry(rc, next) ==
  IF rc = 0 THEN next
  ELSE CASE next = "rsync" -> "mkdir"
         [] next = "upload" -> "rsync"
         [] OTHER -> "upload"

\* The scripts set neither errexit nor a trap and test no exit status: the
\* line after an external command runs whatever the command returned.
AfterCommand(rc, next) == next

----------------------------------------------------------------------------
(* Shell arithmetic.  bash evaluates $(( )) in intmax_t: 64 bits, two's
   complement, no overflow check.  A number is kept as its bytes, lowest
   first; a shell integer is the lowest 8 bytes of the exact result. *)

Digit(x, i) == IF i <= Len(x) THEN x[i] ELSE 0

IsZero(x) == \A i \in 1..Len(x) : x[i] = 0

RECURSIVE FromInt(_, _)
\* the n lowest bytes of a small number
FromInt(m, n) == IF n = 0 THEN <<>> ELSE <<m % 256>> \o FromInt(m \div 256, n - 1)

RECURSIVE ToInt(_)
\* the number a short byte string stands for
ToInt(x) == IF x = <<>> THEN 0 ELSE x[1] + 256 * ToInt(Tail(x))

RECURSIVE PlusFrom(_, _, _, _, _)
PlusFrom(x, y, i, n, carry) ==
  IF i > n THEN <<>>
  ELSE LET s == Digit(x, i) + Digit(y, i) + carry
       IN  <<s % 256>> \o PlusFrom(x, y, i + 1, n, s \div 256)

\* x + y, its n lowest bytes
Plus(x, y, n) == PlusFrom(x, y, 1, n, 0)

RECURSIVE MinusFrom(_, _, _, _, _)
MinusFrom(x, y, i, n, borrow) ==
  IF i > n THEN <<>>
  ELSE LET s == 256 + Digit(x, i) - Digit(y, i) - borrow
       IN  <<s % 256>> \o MinusFrom(x, y, i + 1, n, 1 - (s \div 256))

\* x - y, its n lowest bytes
Minus(x, y, n) == MinusFrom(x, y, 1, n, 0)

RECURSIVE Column(_, _, _, _)
\* the sum of x[i] * y[k + 1 - i] over i in from..k
Column(x, y, k, from) ==
  IF from > k \/ from > Len(x) THEN 0
  ELSE Digit(x, from) * Digit(y, k + 1 - from) + Column(x, y, k, from + 1)

RECURSIVE TimesFrom(_, _, _, _, _)
TimesFrom(x, y, k, n, carry) ==
  IF k > n THEN <<>>
  ELSE LET s == Column(x, y, k, 1) + carry
       IN  <<s % 256>> \o TimesFrom(x, y, k + 1, n, s \div 256)

\* x * y, its n lowest bytes
Times(x, y, n) == TimesFrom(x, y, 1, n, 0)

RECURSIVE LessFrom(_, _, _)
LessFrom(x, y, i) ==
  IF i = 0 THEN FALSE
  ELSE IF Digit(x, i) # Digit(y, i) THEN Digit(x, i) < Digit(y, i)
  ELSE LessFrom(x, y, i - 1)

\* x < y, both read as natural numbers
Less(x, y) == LessFrom(x, y, IF Len(x) > Len(y) THEN Len(x) ELSE Len(y))

RECURSIVE DigitFrom(_, _, _, _)
\* the largest d + k with k < 2^(b + 1) and (d + k) * y <= x
DigitFrom(x, y, b, d) ==
  IF b < 0 THEN d
  ELSE LET d2 == d + 2 ^ b
       IN  IF Less(x, Times(<<d2>>, y, Len(y) + 1)) THEN DigitFrom(x, y, b - 1, d)
           ELSE DigitFrom(x, y, b - 1, d2)

RECURSIVE DivModFrom(_, _, _, _, _)
\* long division by bytes, bytes i..1 of x still to bring down
DivModFrom(x, y, i, q, r) ==
  IF i = 0 THEN <<q, r>>
  ELSE LET r2 == <<x[i]>> \o r
           d  == DigitFrom(r2, y, 7, 0)
       IN  IF d = 0 THEN DivModFrom(x, y, i - 1, <<0>> \o q, SubSeq(r2, 1, Len(y)))
           ELSE DivModFrom(x, y, i - 1, <<d>> \o q,
                           Minus(r2, Times(<<d>>, y, Len(y) + 1), Len(y)))

RECURSIVE Trim(_)
\* x without its leading zero bytes
Trim(x) ==
  IF x = <<>> \/ x[Len(x)] # 0 THEN x ELSE Trim(SubSeq(x, 1, Len(x) - 1))

\* <<floor(x / y), x mod y>> of natural numbers, y # 0
DivMod(x, y) ==
  LET dividend == Trim(x)
      divisor  == Trim(y)
  IN  DivModFrom(dividend, divisor, Len(dividend), <<>>,
                 [i \in 1..Len(divisor) |-> 0])

\* x * y, exact
Product(x, y) ==
  LET a == Trim(x)
      b == Trim(y)
  IN  Times(a, b, Len(a) + Len(b))

\* the width of intmax_t in bytes
IntmaxBytes == 8

\* what a shell integer keeps of an exact result
Wrap(x) == [i \in 1..IntmaxBytes |-> Digit(x, i)]

\* the sign bit of a shell integer
Negative(w) == w[IntmaxBytes] >= 128

Negate(w) == Minus(<<>>, w, IntmaxBytes)

Magnitude(w) == IF Negative(w) THEN Negate(w) ELSE w

\* a natural number that a shell integer holds as it is: below 2^63
Fits(x) ==
  /\ \A i \in 1..Len(x) : i > IntmaxBytes => x[i] = 0
  /\ Digit(x, IntmaxBytes) < 128

\* x / y in $(( )), y # 0: the quotient is truncated towards zero
Quotient(x, y) ==
  LET q == Wrap(DivMod(Magnitude(x), Magnitude(y))[1])
  IN  IF Negative(x) # Negative(y) THEN Negate(q) ELSE q

\* what a failed expansion leaves in the variable: nothing is assigned
Unset == <<>>

\* a number written in the script, as the shell integer it is read into
ShellInt(m) == FromInt(m, IntmaxBytes)

----------------------------------------------------------------------------
(* CHOOSE COMMAND sections, lines 46-80 and 130-148. *)

TrainScript(s) ==
  IF s = "durs" THEN <<"examples/tts/fasterspeech_durs.py">>
  ELSE <<"examples/asr/quartznet.py">>

Config(s) ==
  IF s = "durs" THEN <<"examples/tts/configs/fasterspeech-durs-lj.yaml">>
  ELSE <<"examples/asr/configs/quartznet15x5-libritts-durs.yaml">>

\* batch_size=$((GPU_MEM * 6))
BatchSize(gpuMem) == Times(gpuMem, ShellInt(6), IntmaxBytes)

\* faulty variant of TotalSteps: the quotient is rounded up instead
TotalSteps_RoundedUp(size, bs, numGpu, epochs) ==
  LET perStep == Times(bs, numGpu, IntmaxBytes)
      upTo    == Minus(Plus(size, perStep, IntmaxBytes), ShellInt(1), IntmaxBytes)
  IN  IF IsZero(perStep) THEN Unset
      ELSE Times(Quotient(upTo, perStep), epochs, IntmaxBytes)

\* faulty variant of TotalSteps: the "+ 1" is left out
TotalSteps_NoPlusOne(size, bs, numGpu, epochs) ==
  LET perStep == Times(bs, numGpu, IntmaxBytes)
  IN  IF IsZero(perStep) THEN Unset
      ELSE Times(Quotient(size, perStep), epochs, IntmaxBytes)

\* total_steps=$((((DATASET_SIZE / (batch_size * NUM_GPU)) + 1) * NUM_EPOCHS))
\* Every operation wraps to 64 bits.  A zero divisor is the expression error
\* "division by 0": the assignment is not made and the script goes on.
TotalSteps(size, bs, numGpu, epochs) ==
  LET perStep == Times(bs, numGpu, IntmaxBytes)
  IN  IF IsZero(perStep) THEN Unset
      ELSE Times(Plus(Quotient(size, perStep), ShellInt(1), IntmaxBytes), epochs,
                 IntmaxBytes)

\* lines 51-52 with the values of the CONSTS section of durs, as numbers
DursBatchSize == ToInt(BatchSize(ShellInt(GPU_MEM("durs"))))

DursTotalSteps ==
  ToInt(TotalSteps(ShellInt(DATASET_SIZE), ShellInt(DursBatchSize),
                   ShellInt(NUM_GPU("durs")), ShellInt(NUM_EPOCHS)))

\* $((total_steps / 50))
Warmup(ts) == ts \div 50

\* faulty variant of NprocPerNode: one process, whatever NUM_GPU is
NprocPerNode_One(s) == <<"--nproc_per_node=", "1">>

\* --nproc_per_node=${NUM_GPU}
NprocPerNode(s) == <<"--nproc_per_node=", ToString(NUM_GPU(s))>>

\* faulty variant of SetupSteps: the heredoc does not expand ${WANDB_TOKEN}
SetupSteps_TokenNotExpanded(s, ident, token) ==
  IF s = "durs" THEN
    << << <<"nvidia-smi">> >>,
       << <<"apt-get">>, <<"update">> >>,
       << <<"apt-get">>, <<"install">>, <<"-y">>, <<"libsndfile1">> >>,
       << <<"pip">>, <<"install">>, <<"-U">>, <<"librosa">> >>,
       << <<"cp">>, <<"-R">>, WORKSPACE(s) \o <<"/nemos/">> \o ident, <<"/nemo">> >>,
       << <<"cd">>, <<"/nemo">> >>,
       << <<"pip">>, <<"install">>, <<".[all]">> >>,
       << <<"pip">>, <<"install">>, <<"-U">>, <<"wandb">> >>,
       << <<"wandb">>, <<"login">>, <<"${WANDB_TOKEN}">> >> >>
  ELSE
    << << <<"nvidia-smi">> >>,
       << <<"apt-get">>, <<"update">> >>,
       << <<"apt-get">>, <<"install">>, <<"-y">>, <<"libsndfile1">> >>,
       << <<"cp">>, <<"-R">>, WORKSPACE(s) \o <<"/nemos/">> \o ident, <<"/nemo">> >>,
       << <<"cd">>, <<"/nemo">> >>,
       << <<"pip">>, <<"install">>, <<".[all]">> >> >>

\* The setup steps of the remote command, each a simple command of the chain.
SetupSteps(s, ident, token) ==
  IF s = "durs" THEN
    << << <<"nvidia-smi">> >>,
       << <<"apt-get">>, <<"update">> >>,
       << <<"apt-get">>, <<"install">>, <<"-y">>, <<"libsndfile1">> >>,
       << <<"pip">>, <<"install">>, <<"-U">>, <<"librosa">> >>,
       << <<"cp">>, <<"-R">>, WORKSPACE(s) \o <<"/nemos/">> \o ident, <<"/nemo">> >>,
       << <<"cd">>, <<"/nemo">> >>,
       << <<"pip">>, <<"install">>, <<".[all]">> >>,
       << <<"pip">>, <<"install">>, <<"-U">>, <<"wandb">> >>,
       << <<"wandb">>, <<"login">>, token >> >>
  ELSE
    << << <<"nvidia-smi">> >>,
       << <<"apt-get">>, <<"update">> >>,
       << <<"apt-get">>, <<"install">>, <<"-y">>, <<"libsndfile1">> >>,
       << <<"cp">>, <<"-R">>, WORKSPACE(s) \o <<"/nemos/">> \o ident, <<"/nemo">> >>,
       << <<"cd">>, <<"/nemo">> >>,
       << <<"pip">>, <<"install">>, <<".[all]">> >> >>

\* The training command, the last simple command of the chain.
TrainCommand(s, name, bs, ts) ==
  IF s = "durs" THEN
    << <<"python">>, <<"-m">>, <<"torch.distributed.launch">>,
       NprocPerNode(s), TrainScript(s),
       <<"--amp_opt_level=">> \o OPT,
       <<"--model_config=">> \o Config(s),
       <<"--batch_size=", ToString(bs)>>,
       <<"--train_freq=", "10">>,
       <<"--eval_freq=", "100">>,
       <<"--warmup=", ToString(Warmup(ts))>>,
       <<"--num_epochs=", ToString(NUM_EPOCHS)>>,
       <<"--work_dir=">> \o RESULT(s),
       <<"--wdb_name=">> \o name,
       <<"--wdb_tags=", "durs,ljspeech,opt">>,
       <<"--train_dataset=", "/data/libritts/train.json">>,
       <<"--train_durs=",
         "/data/librimeta/durs/libritts_300epochs-qn15x5-eqlen_all-1s_22k/train-all.npy">>,
       <<"--eval_names">>, <<"eval">>, <<"test">>,
       <<"--eval_datasets">>,
       <<"/data/ljspeech/split3/eval.json">>,
       <<"/data/ljspeech/split3/test.json">>,
       <<"--eval_durs">>,
       <<"/data/librimeta/durs/ljspeech_300epochs-qn15x5-eqlen_all-1s_split3/eval.npy">>,
       <<"/data/librimeta/durs/ljspeech_300epochs-qn15x5-eqlen_all-1s_split3/test.npy">> >>
  ELSE
    << <<"python">>, <<"-m">>, <<"torch.distributed.launch">>,
       NprocPerNode(s), TrainScript(s),
       <<"--num_epochs=", "150">>,
       <<"--eval_batch_size=", "32">>,
       <<"--model_config=">> \o Config(s),
       <<"--checkpoint_dir=">> \o RESULT(s),
       <<"--checkpoint_save_freq=", "10000">>,
       <<"--train_dataset=", "/manifests/libritts/train-all.json">>,
       <<"--eval_datasets">>,
       <<"/manifests/libritts/dev-clean.json">>,
       <<"/manifests/libritts/dev-other.json">>,
       <<"/manifests/libritts/test-clean.json">>,
       <<"/manifests/libritts/test-other.json">> >>

\* read -r -d '' cmd <<EOF ... EOF: the chain  step && ... && step && train
RemoteCommand(s, ident, token, name, bs, ts) ==
  Append(SetupSteps(s, ident, token), TrainCommand(s, name, bs, ts))

----------------------------------------------------------------------------
(* FIRE sections, lines 83-93 and 151-160. *)

\* --instance dgx1v."${GPU_MEM}"g."${NUM_GPU}".norm
Instance(s) ==
  <<"dgx1v.", ToString(GPU_MEM(s)), "g.", ToString(NUM_GPU(s)), ".norm">>

DatasetIds(s) ==
  IF s = "durs" THEN
    << <<"58106:/data/libritts">>, <<"59943:/data/ljspeech">>,
       <<"59319:/data/librimeta">> >>
  ELSE << <<"58106:/data/libritts">>, <<"58404:/manifests/libritts">> >>

RECURSIVE DatasetFlags(_)
DatasetFlags(ds) ==
  IF ds = <<>> THEN <<>>
  ELSE << <<"--datasetid">>, Head(ds) >> \o DatasetFlags(Tail(ds))

\* faulty variant of BatchRunArgs: the result directory is made per experiment
BatchRunArgs_ResultPerName(s, name) ==
  << <<"--name">>, name,
     <<"--image">>, IMAGE(s),
     <<"--ace">>, <<"nv-us-west-2">>,
     <<"--instance">>, Instance(s),
     <<"--result">>, RESULT(s) \o <<"/">> \o name >>
  \o DatasetFlags(DatasetIds(s))
  \o << <<"--workspace">>, WS(s) \o <<":">> \o WORKSPACE(s) >>

\* the argument words of ngc batch run before --commandline
BatchRunArgs(s, name) ==
  << <<"--name">>, name,
     <<"--image">>, IMAGE(s),
     <<"--ace">>, <<"nv-us-west-2">>,
     <<"--instance">>, Instance(s),
     <<"--result">>, RESULT(s) >>
  \o DatasetFlags(DatasetIds(s))
  \o << <<"--workspace">>, WS(s) \o <<":">> \o WORKSPACE(s) >>

----------------------------------------------------------------------------
(***************************************************************************)
(* The notebooks: biobert_qa.ipynb ("qa") and, in src/unnamed/part_001,    *)
(* the relation-extraction notebook ("re", lines 1-337) and the            *)
(* punctuation and capitalization notebook ("punct", lines 339-838).       *)
(*                                                                         *)
(* A notebook is run from its first code cell to its last; a cell that     *)
(* raises ends the run.  A call into a library may raise; a shell escape   *)
(* (!command) never does.  Text is a sequence of pieces as before; a path  *)
(* is cut at every "/", which is a piece of its own, and at the edges of   *)
(* what an f-string interpolates.                                          *)
(***************************************************************************)

Notebooks == {"qa", "re", "punct"}
\* model_type as set in the cell, and the value its comment offers
ModelTypes == {"biobert", "biomegatron"}
\* test_dataset_idx: the five test batches of BioASQ 6b
TestIdxValues == {"1", "2", "3", "4", "5"}

\* whole batches of training data the model tries
MaxBatches == 2

QA_batch_size == 12
QA_num_epochs == 5
QA_num_classes == 2
RE_batch_size == 32
RE_num_epochs == 3
RE_eval_step == 500
BATCHES_PER_STEP == 1
BATCH_SIZE == 128
PUNCT_NUM_EPOCHS == 10

\* batch_size / BATCH_SIZE
BatchSizeOf(n) ==
  CASE n = "qa" -> QA_batch_size [] n = "re" -> RE_batch_size [] OTHER -> BATCH_SIZE

\* num_epochs / NUM_EPOCHS
NumEpochsOf(n) ==
  CASE n = "qa" -> QA_num_epochs [] n = "re" -> RE_num_epochs [] OTHER -> PUNCT_NUM_EPOCHS

\* len(train_data_layer): the sizes next to a whole number of batches
TrainSizes(n) ==
  {k \in 0..(MaxBatches * BatchSizeOf(n) + 1) :
     k % BatchSizeOf(n) \in {0, 1, BatchSizeOf(n) - 1}}

\* no exception
NoError == [type |-> "none", errno |-> "none", arg |-> <<>>, by |-> "none"]

\* raise OSError(errno.ENOENT, os.strerror(errno.ENOENT), path)
FileNotFound(path) ==
  [type |-> "OSError", errno |-> "ENOENT", arg |-> path, by |-> "notebook"]

\* faulty variant of LengthError: another exception is raised
LengthError_AsIndexError ==
  [type |-> "IndexError", errno |-> "none",
   arg |-> <<"list index out of range">>, by |-> "notebook"]

\* raise ValueError('Pred and words must be of the same length')
LengthError ==
  [type |-> "ValueError", errno |-> "none",
   arg |-> <<"Pred and words must be of the same length">>, by |-> "notebook"]

\* whatever a library call raises
LibraryError(call) ==
  [type |-> "Exception", errno |-> "none", arg |-> <<call>>, by |-> "library"]

Range(f) == {f[k] : k \in DOMAIN f}

----------------------------------------------------------------------------
(* Paths. *)

\* os.path.join(a, b) for a relative b
PathJoin(a, b) ==
  IF a = <<>> THEN b
  ELSE IF a[Len(a)] = "/" THEN a \o b
  ELSE a \o <<"/">> \o b

\* base_checkpoint_path[model_type]
BaseCheckpointPath(n, m) ==
  IF n = "qa" THEN <<".", "/", "checkpoints", "/", m, "/", "qa_squad">>
  ELSE <<".", "/", "checkpoints", "/", m, "/">>

\* faulty variant of CheckpointNames: the configuration file is tested first
CheckpointNames_ConfigFirst(n) ==
  IF n = "qa" THEN <<"bert_config.json", "BERT.pt", "TokenClassifier.pt">>
  ELSE <<"bert_config.json", "BERT.pt">>

\* CHECKPOINT_ENCODER, CHECKPOINT_HEAD (qa only), CHECKPOINT_CONFIG, in the
\* order the cell tests them
CheckpointNames(n) ==
  IF n = "qa" THEN <<"BERT.pt", "TokenClassifier.pt", "bert_config.json">>
  ELSE <<"BERT.pt", "bert_config.json">>

CheckedPaths(n, m) ==
  [k \in 1..Len(CheckpointNames(n)) |->
     PathJoin(BaseCheckpointPath(n, m), <<CheckpointNames(n)[k]>>)]

\* the first path of ps that is not in the set p; 0 when all are
FirstMissing(ps, p) ==
  IF \A k \in 1..Len(ps) : ps[k] \in p THEN 0
  ELSE CHOOSE k \in 1..Len(ps) : ps[k] \notin p /\ \A j \in 1..(k - 1) : ps[j] \in p

\* data_dir, dataset of the qa notebook
DataDir == <<".", "/", "datasets">>
Dataset == <<"BioASQ">>

\* train_file=f"{data_dir}/{dataset}/BioASQ-6b/train/Full-Abstract/..."
TrainFile ==
  DataDir \o <<"/">> \o Dataset \o
  <<"/", "BioASQ-6b", "/", "train", "/", "Full-Abstract", "/",
    "BioASQ-train-factoid-6b-full-annotated.json">>

\* test_file=f"{data_dir}/{dataset}/BioASQ-6b/test/Full-Abstract/
\*             BioASQ-test-factoid-{test_dataset}-{test_dataset_idx}.json"
TestFile(ds, idx) ==
  DataDir \o <<"/">> \o Dataset \o
  <<"/", "BioASQ-6b", "/", "test", "/", "Full-Abstract", "/",
    "BioASQ-test-factoid-", ds, "-", idx, ".json">>

\* The files the notebook says ./datasets/BioASQ holds after the download,
\* cut as the f-strings above cut theirs.
DocumentedFiles ==
  { <<"6B", idx, "_golden.json">> : idx \in TestIdxValues }
  \cup { <<"BioASQ-6b", "/", "train", "/", "Full-Abstract", "/",
           "BioASQ-train-factoid-6b-full-annotated.json">> }
  \cup { <<"BioASQ-6b", "/", "test", "/", "BioASQ-6b", "/", "test", "/",
           "Full-Abstract", "/", "BioASQ-test-factoid-", "6b", "-", idx, ".json">> :
         idx \in TestIdxValues }

\* work_dir, output_nbest_file, output_prediction_file
WorkDir == <<"output_bioasq">>
\* punct line 363
WORK_DIR == <<"PATH_TO_WHERE_TO_STORE_CHECKPOINTS_AND_LOGS">>

\* a value that is None
None == <<>>

\* log_dir of the notebook's NeuralModuleFactory(...); re gives none
LogDir(n) == CASE n = "qa" -> WorkDir [] n = "punct" -> WORK_DIR [] OTHER -> None

\* nf.checkpoint_dir of a factory made with log_dir: <log_dir>/checkpoints
CheckpointDir(log_dir) ==
  IF log_dir = None THEN None ELSE log_dir \o <<"/", "checkpoints">>

\* nf = nemo.core.NeuralModuleFactory(..., log_dir=log_dir)
NeuralModuleFactory(log_dir) ==
  [log_dir |-> log_dir, checkpoint_dir |-> CheckpointDir(log_dir)]

\* ckpt_callback = nemo.core.CheckpointCallback(folder=nf.checkpoint_dir, ...)
CheckpointCallback(factory) == [folder |-> factory.checkpoint_dir]

\* faulty variant of InferCheckpointDir: punct gives WORK_DIR itself
InferCheckpointDir_LogDir(n, factory) ==
  IF n = "qa" THEN factory.checkpoint_dir ELSE WORK_DIR

\* the checkpoint_dir argument of nf.infer: nf.checkpoint_dir in qa,
\* WORK_DIR + '/checkpoints' in punct
InferCheckpointDir(n, factory) ==
  IF n = "qa" THEN factory.checkpoint_dir ELSE WORK_DIR \o <<"/", "checkpoints">>

\* the (k+1)-th call of cs is name, or an earlier one: it has been made
Made(cs, k, name) == \E j \in 1..(k + 1) : j <= Len(cs) /\ cs[j] = name
OutputNbestFile == WorkDir \o <<"/", "nbest.json">>
OutputPredictionFile == WorkDir \o <<"/", "predictions.json">>

\* with open(path, "w") as writer: writer.write(json.dumps(obj, indent=4) + "\n")
JsonFile(path, obj) ==
  [path |-> path, mode |-> "w", data |-> << [json |-> obj, indent |-> 4], "\n" >>]

----------------------------------------------------------------------------
(* Cells. *)

\* faulty variant of Cells: in qa the test cells come before the training cell
Cells_PredictBeforeTraining(n) ==
  CASE n = "qa" ->
         <<"imports", "set_model", "check", "data", "modules", "graph",
           "callbacks", "set_test", "test_graph", "predict", "training",
           "head_test", "head_nbest", "grep_golden", "clone", "transform",
           "evaluate">>
    [] n = "re" ->
         <<"imports", "set_model", "check", "data", "modules", "graph",
           "callbacks", "training">>
    [] OTHER ->
         <<"imports", "data", "factory", "bert", "modules", "graph",
           "eval_graph", "callbacks", "training", "queries", "infer", "decode">>

\* the code cells of a notebook, first to last
Cells(n) ==
  CASE n = "qa" ->
         <<"imports", "set_model", "check", "data", "modules", "graph",
           "callbacks", "training", "set_test", "test_graph", "predict",
           "head_test", "head_nbest", "grep_golden", "clone", "transform",
           "evaluate">>
    [] n = "re" ->
         <<"imports", "set_model", "check", "data", "modules", "graph",
           "callbacks", "training">>
    [] OTHER ->
         <<"imports", "data", "factory", "bert", "modules", "graph",
           "eval_graph", "callbacks", "training", "queries", "infer", "decode">>

\* the cell after cell c; "done" after the last
NextCell(n, c) ==
  LET cs == Cells(n)
      k == CHOOSE j \in 1..Len(cs) : cs[j] = c
  IN  IF k = Len(cs) THEN "done" ELSE cs[k + 1]

\* the library calls a cell makes, in order
CellCalls(n, c) ==
  CASE c = "imports" -> <<"import">>
    [] c = "factory" -> <<"NeuralModuleFactory">>
    [] c = "bert" -> <<"get_pretrained_lm_model", "get_tokenizer">>
    [] c = "modules" /\ n = "qa" ->
         <<"NeuralModuleFactory", "get_pretrained_lm_model", "get_tokenizer",
           "TokenClassifier", "restore_from", "SpanningLoss",
           "BertQuestionAnsweringDataLayer">>
    [] c = "modules" /\ n = "re" ->
         <<"NeuralModuleFactory", "get_pretrained_lm_model", "get_tokenizer",
           "TextClassificationDataDesc", "SequenceClassifier",
           "CrossEntropyLossNM", "BertTextClassificationDataLayer",
           "BertTextClassificationDataLayer">>
    [] c = "modules" /\ n = "punct" ->
         <<"PunctuationCapitalizationDataLayer", "TokenClassifier",
           "TokenClassifier", "calc_class_weights", "CrossEntropyLossNM",
           "CrossEntropyLossNM", "LossAggregatorNM">>
    [] c = "graph" /\ n = "qa" ->
         <<"train_data_layer()", "model()", "qa_head()", "task_loss()",
           "len(train_data_layer)">>
    [] c = "graph" /\ n = "re" ->
         <<"train_data_layer()", "model()", "classifier()", "task_loss()",
           "len(train_data_layer)", "eval_data_layer()", "model()",
           "classifier()">>
    [] c = "graph" /\ n = "punct" ->
         <<"train_data_layer()", "bert_model()", "punct_classifier()",
           "capit_classifier()", "punct_loss()", "capit_loss()", "task_loss()">>
    [] c = "eval_graph" ->
         <<"PunctuationCapitalizationDataLayer", "eval_data_layer()",
           "bert_model()", "punct_classifier()", "capit_classifier()">>
    [] c = "callbacks" /\ n = "qa" ->
         <<"SimpleLossLoggerCallback", "CheckpointCallback">>
    [] c = "callbacks" /\ n = "re" ->
         <<"SimpleLossLoggerCallback", "EvaluatorCallback">>
    [] c = "callbacks" /\ n = "punct" ->
         <<"SimpleLossLoggerCallback", "len(train_data_layer)",
           "EvaluatorCallback", "CheckpointCallback">>
    [] c = "training" /\ n = "qa" -> <<"get_lr_policy", "reset_trainer", "train">>
    [] c = "training" /\ n = "re" -> <<"get_lr_policy", "train">>
    [] c = "training" /\ n = "punct" -> <<"WarmupAnnealing", "train">>
    [] c = "test_graph" ->
         <<"BertQuestionAnsweringDataLayer", "test_data_layer()", "model()",
           "qa_head()">>
    [] c = "predict" ->
         <<"infer", "np.split", "get_predictions", "write nbest",
           "write predictions">>
    [] c = "infer" ->
         <<"BertTokenClassificationInferDataLayer", "infer_data_layer()",
           "bert_model()", "punct_classifier()", "capit_classifier()", "infer">>
    [] c = "decode" -> <<"np.concatenate", "np.argmax">>
    [] OTHER -> <<>>

\* the shell escapes of a cell that has nothing else
ShellCells == {"head_test", "head_nbest", "grep_golden", "transform", "evaluate"}
ShellCommands(c) ==
  CASE c = "head_test" -> <<"!head test_file">>
    [] c = "head_nbest" -> <<"!head output_nbest_file">>
    [] c = "grep_golden" -> <<"!grep golden">>
    [] c = "transform" -> <<"!mkdir -p transformed_nbest", "!python transform_n2b_factoid.py">>
    [] OTHER -> <<"!java EvaluatorTask1b">>

\* the shell escapes of the download cell; there: the data directory exists
DataCommands(n, there) ==
  CASE n = "qa" ->
         (IF there THEN <<>> ELSE <<"!python get_bioasq.py">>) \o <<"!ls">>
    [] n = "re" ->
         (IF there THEN <<>> ELSE <<"!mkdir", "!wget", "!unzip", "!rm">>)
         \o <<"!python import_datasets.py", "!ls">>
    [] OTHER -> <<"!python get_tatoeba_data.py">>

\* name is among the first k calls of cs: the call was made and returned
Returned(cs, k, name) == \E j \in 1..k : cs[j] = name

\* int(a / b) for a >= 0, b > 0: the quotient, truncated
IntOfQuotient(a, b) == a \div b

\* faulty variant of StepsPerEpoch: the quotient is rounded up
StepsPerEpoch_Ceil(n, size) ==
  (size + BatchSizeOf(n) - 1) \div BatchSizeOf(n)

\* train_steps_per_epoch = len(train_data_layer) // batch_size       (qa, re)
\* steps_per_epoch = int(train_data_size / (BATCHES_PER_STEP * BATCH_SIZE))
StepsPerEpoch(n, size) ==
  IF n = "punct" THEN IntOfQuotient(size, BATCHES_PER_STEP * BATCH_SIZE)
  ELSE size \div BatchSizeOf(n)

\* total_steps=num_epochs * train_steps_per_epoch
LrTotalSteps(n, steps) == NumEpochsOf(n) * steps

\* faulty variant of PredictionFiles: the n-best file is opened before
\* inference and decoding
PredictionFiles_OpenedFirst(cs, k) ==
  <<JsonFile(OutputNbestFile, "all_nbest")>>
  \o (IF Returned(cs, k, "write predictions")
        THEN <<JsonFile(OutputPredictionFile, "all_predictions")>> ELSE <<>>)

\* the files the first k calls of the prediction cell have written
PredictionFiles(cs, k) ==
  (IF Returned(cs, k, "write nbest")
     THEN <<JsonFile(OutputNbestFile, "all_nbest")>> ELSE <<>>)
  \o (IF Returned(cs, k, "write predictions")
        THEN <<JsonFile(OutputPredictionFile, "all_predictions")>> ELSE <<>>)

----------------------------------------------------------------------------
(* Text of the punctuation notebook: a string is the sequence of its       *)
(* characters.                                                             *)

\* the characters of the queries the model tries
QueryChars == {"a", "A", " "}
\* characters of one query, tokens of one row of the evaluated tensors
MaxQueryLen == 3
MaxTokens == 2
\* queries in the list
MaxQueries == 2

IsSpace(c) == c = " "
Upper(c) == CASE c = "a" -> "A" [] c = "b" -> "B" [] OTHER -> c
Lower(c) == CASE c = "A" -> "a" [] c = "B" -> "b" [] OTHER -> c

\* str.lower()
LowerCase(s) == [k \in 1..Len(s) |-> Lower(s[k])]

\* str.capitalize(): the first character upper-cased, the others lower-cased
Capitalize(w) ==
  [k \in 1..Len(w) |-> IF k = 1 THEN Upper(w[k]) ELSE Lower(w[k])]

\* str.strip()
RECURSIVE Strip(_)
Strip(s) ==
  IF s = <<>> THEN s
  ELSE IF IsSpace(s[1]) THEN Strip(Tail(s))
  ELSE IF IsSpace(s[Len(s)]) THEN Strip(SubSeq(s, 1, Len(s) - 1))
  ELSE s

\* str.split(): the maximal runs of characters that are not whitespace;
\* w is the run being read at position k
RECURSIVE SplitFrom(_, _, _)
SplitFrom(s, k, w) ==
  IF k > Len(s) THEN (IF w = <<>> THEN <<>> ELSE <<w>>)
  ELSE IF IsSpace(s[k])
         THEN (IF w = <<>> THEN <<>> ELSE <<w>>) \o SplitFrom(s, k + 1, <<>>)
         ELSE SplitFrom(s, k + 1, Append(w, s[k]))

Split(s) == SplitFrom(s, 1, <<>>)

\* punct_label_ids, capit_label_ids: label -> id, as the data layer built them
PunctLabelIds == ("O" :> 0) @@ ("," :> 1)
CapitLabelIds == ("O" :> 0) @@ ("U" :> 1)

\* {ids[k]: k for k in ids}
IdsToLabels(ids) ==
  [d \in Range(ids) |-> CHOOSE l \in DOMAIN ids : ids[l] = d]

\* one position of a row of the evaluated tensors, after argmax:
\* punct_preds[i][t], capit_preds[i][t], subtokens_mask[i][t]
Tokens ==
  [punct : Range(PunctLabelIds), capit : Range(CapitLabelIds), mask : {0, 1}]

\* x[subtokens_mask[i] > 0.5]
Selected(row) == SelectSeq(row, LAMBDA t : 2 * t.mask > 1)
PunctPred(row) == [k \in 1..Len(Selected(row)) |-> Selected(row)[k].punct]
CapitPred(row) == [k \in 1..Len(Selected(row)) |-> Selected(row)[k].capit]

\* faulty variant of LengthsDiffer: only too few predictions are an error
LengthsDiffer_TooFewOnly(punct_pred, capit_pred, words) ==
  Len(punct_pred) < Len(words) \/ Len(capit_pred) < Len(words)

\* len(punct_pred) != len(words) or len(capit_pred) != len(words)
LengthsDiffer(punct_pred, capit_pred, words) ==
  Len(punct_pred) # Len(words) \/ Len(capit_pred) # Len(words)

\* faulty variant of WordOut: the word is always capitalized
WordOut_AlwaysCapitalized(w, punct_label, capit_label) ==
  Capitalize(w) \o (IF punct_label # "O" THEN <<punct_label>> ELSE <<>>) \o <<" ">>

\* what one word adds to output (the body of the inner loop)
WordOut(w, punct_label, capit_label) ==
  (IF capit_label # "O" THEN Capitalize(w) ELSE w)
  \o (IF punct_label # "O" THEN <<punct_label>> ELSE <<>>)
  \o <<" ">>

\* output after the inner loop has handled words j..Len(words)
RECURSIVE OutputFrom(_, _, _, _)
OutputFrom(words, punct_pred, capit_pred, j) ==
  IF j > Len(words) THEN <<>>
  ELSE WordOut(words[j], IdsToLabels(PunctLabelIds)[punct_pred[j]],
               IdsToLabels(CapitLabelIds)[capit_pred[j]])
       \o OutputFrom(words, punct_pred, capit_pred, j + 1)

QueryLine(query) == <<"Query: ">> \o query
\* print(f'Combined: {output.strip()}\n'): the line, and an empty one
CombinedLines(output) == << <<"Combined: ">> \o Strip(output), <<>> >>

\* the query lists and evaluated rows of a whole run of the notebook
QueryPool == { <<"a">>, <<"a", " ", "A">> }
RowPool ==
  { << [punct |-> 0, capit |-> 1, mask |-> 1] >>,
    << [punct |-> 1, capit |-> 0, mask |-> 1], [punct |-> 0, capit |-> 0, mask |-> 0],
       [punct |-> 0, capit |-> 1, mask |-> 1] >> }

----------------------------------------------------------------------------
(* The state machine. *)

\* no script is executing
ScriptRest ==
  /\ script = "none"
  /\ argv = <<>>
  /\ cwd = <<>>
  /\ setupPy = FALSE
  /\ WANDB_TOKEN = <<>>
  /\ urandom = <<>>
  /\ pc = "idle"
  /\ name_id = <<>>
  /\ num_id = <<>>
  /\ id = <<>>
  /\ tmp_dir = <<>>
  /\ batch_size = 0
  /\ total_steps = 0
  /\ cmd = <<>>
  /\ stdout = <<>>
  /\ status = -1
  /\ cmds = <<>>
  /\ runs = 0
  /\ batchRuns = {}

\* no notebook is open
NbRest ==
  /\ nb = "none"
  /\ cell = "none"
  /\ model_type = "none"
  /\ present = {}
  /\ raised = NoError
  /\ calls = <<>>
  /\ nf = [log_dir |-> None, checkpoint_dir |-> None]
  /\ ckpt_callback = [folder |-> None]
  /\ checkpoint_dir = None
  /\ written = <<>>
  /\ train_data_size = -1
  /\ steps_per_epoch = -1
  /\ lr_total_steps = -1
  /\ eval_step = -1
  /\ test_dataset_idx = "none"
  /\ train_file = <<>>
  /\ test_file = <<>>
  /\ queries = <<>>
  /\ evaluated = <<>>
  /\ loop_i = 0
  /\ printed = <<>>

\* no operands chosen
CalcRest ==
  calc = [DATASET_SIZE |-> Unset, GPU_MEM |-> Unset, NUM_GPU |-> Unset,
          NUM_EPOCHS |-> Unset, batch_size |-> Unset, total_steps |-> Unset]

\* no container is running
JobRest == job = [script |-> "none", chain |-> <<>>, ran |-> <<>>]

\* the prediction cell is not being run
PredictRest ==
  predict = [at |-> "none", evaluated_tensors |-> <<>>, unique_ids |-> <<>>,
             logits |-> <<>>, start_logits |-> <<>>, end_logits |-> <<>>,
             raised |-> NoError]

Init == ScriptRest /\ NbRest /\ CalcRest /\ JobRest /\ PredictRest

\* faulty variant of EchoAndExit1: the message is echoed but `exit 1` is missing
EchoAndExit1_NoExit(line) ==
  /\ stdout' = Append(stdout, line)
  /\ status' = status
  /\ pc' = "save"

\* echo line; exit 1
EchoAndExit1(line) ==
  /\ stdout' = Append(stdout, line)
  /\ status' = 1
  /\ pc' = "exit"

\* A user starts one of the scripts: a fresh shell, with its arguments, its
\* environment and its working directory.
Invoke ==
  /\ pc = "idle"
  /\ runs < MaxRuns
  /\ \E s \in Scripts, a \in ArgVectors, d \in CwdValues, f \in BOOLEAN,
        t \in TokenValues, u \in RandomValues :
       /\ script' = s
       /\ argv' = a
       /\ cwd' = d
       /\ setupPy' = f
       /\ WANDB_TOKEN' = t
       /\ urandom' = u
  /\ pc' = "args"
  /\ runs' = runs + 1
  /\ UNCHANGED <<name_id, num_id, id, tmp_dir, batch_size, total_steps, cmd,
                 stdout, status, cmds, batchRuns>>
  /\ UNCHANGED <<nbVars, calc, job, predict>>

\* The shell process of a finished execution goes away, and its variables,
\* output and status with it; what the scheduler received stays.
Terminate ==
  /\ pc = "exit"
  /\ script' = "none"
  /\ argv' = <<>>
  /\ cwd' = <<>>
  /\ setupPy' = FALSE
  /\ WANDB_TOKEN' = <<>>
  /\ urandom' = <<>>
  /\ pc' = "idle"
  /\ name_id' = <<>>
  /\ num_id' = <<>>
  /\ id' = <<>>
  /\ tmp_dir' = <<>>
  /\ batch_size' = 0
  /\ total_steps' = 0
  /\ cmd' = <<>>
  /\ stdout' = <<>>
  /\ status' = -1
  /\ cmds' = <<>>
  /\ UNCHANGED <<runs, batchRuns>>
  /\ UNCHANGED <<nbVars, calc, job, predict>>

\* lines 3-6, 97-100
CheckArgs ==
  /\ pc = "args"
  /\ IF ArgCheckFails(argv)
       THEN EchoAndExit1(UsageLine(script))
       ELSE pc' = "setup" /\ UNCHANGED <<stdout, status>>
  /\ UNCHANGED <<script, argv, cwd, setupPy, WANDB_TOKEN, urandom, name_id, num_id,
                 id, tmp_dir, batch_size, total_steps, cmd, cmds, runs, batchRuns>>
  /\ UNCHANGED <<nbVars, calc, job, predict>>

\* lines 8-11, 102-105
CheckSetup ==
  /\ pc = "setup"
  /\ IF SetupCheckFails(setupPy)
       THEN EchoAndExit1(RootMsg(script))
       ELSE /\ pc' = IF ChecksToken(script) THEN "token" ELSE "save"
            /\ UNCHANGED <<stdout, status>>
  /\ UNCHANGED <<script, argv, cwd, setupPy, WANDB_TOKEN, urandom, name_id, num_id,
                 id, tmp_dir, batch_size, total_steps, cmd, cmds, runs, batchRuns>>
  /\ UNCHANGED <<nbVars, calc, job, predict>>

\* lines 13-16 (durs only)
CheckToken ==
  /\ pc = "token"
  /\ IF TokenCheckFails(WANDB_TOKEN)
       THEN EchoAndExit1(TokenMsg)
       ELSE pc' = "save" /\ UNCHANGED <<stdout, status>>
  /\ UNCHANGED <<script, argv, cwd, setupPy, WANDB_TOKEN, urandom, name_id, num_id,
                 id, tmp_dir, batch_size, total_steps, cmd, cmds, runs, batchRuns>>
  /\ UNCHANGED <<nbVars, calc, job, predict>>

\* lines 32-39, 116-123
SaveState ==
  /\ pc = "save"
  /\ name_id' = Positional(argv, 1)
  /\ num_id' = NumId(urandom)
  /\ id' = RunId(script, name_id', num_id')
  /\ tmp_dir' = TmpDir(id')
  /\ stdout' = stdout \o <<UpdatingMsg, TmpDirMsg(tmp_dir')>>
  /\ pc' = "mkdir"
  /\ UNCHANGED <<script, argv, cwd, setupPy, WANDB_TOKEN, urandom, batch_size,
                 total_steps, cmd, status, cmds, runs, batchRuns>>
  /\ UNCHANGED <<nbVars, calc, job, predict>>

\* an external command runs and returns rc; the script goes on to `next`
External(prog, args, text, rc, next) ==
  /\ cmds' = Append(cmds, Invocation(prog, args, text, rc))
  /\ pc' = AfterCommand(rc, next)
  /\ status' = IF pc' = "exit" THEN rc ELSE status

\* faulty variant of Mkdir: the script goes from mkdir straight to the upload
Mkdir_SkipsRsync ==
  /\ pc = "mkdir"
  /\ \E rc \in ExitCodes : External("mkdir", MkdirArgs(tmp_dir), <<>>, rc, "upload")
  /\ UNCHANGED <<script, argv, cwd, setupPy, WANDB_TOKEN, urandom, name_id, num_id,
                 id, tmp_dir, batch_size, total_steps, cmd, stdout, runs, batchRuns>>
  /\ UNCHANGED <<nbVars, calc, job, predict>>

\* line 41, 125
Mkdir ==
  /\ pc = "mkdir"
  /\ \E rc \in ExitCodes : External("mkdir", MkdirArgs(tmp_dir), <<>>, rc, "rsync")
  /\ UNCHANGED <<script, argv, cwd, setupPy, WANDB_TOKEN, urandom, name_id, num_id,
                 id, tmp_dir, batch_size, total_steps, cmd, stdout, runs, batchRuns>>
  /\ UNCHANGED <<nbVars, calc, job, predict>>

\* line 42, 126
Rsync ==
  /\ pc = "rsync"
  /\ \E rc \in ExitCodes : External("rsync", RsyncArgs(tmp_dir), <<>>, rc, "upload")
  /\ UNCHANGED <<script, argv, cwd, setupPy, WANDB_TOKEN, urandom, name_id, num_id,
                 id, tmp_dir, batch_size, total_steps, cmd, stdout, runs, batchRuns>>
  /\ UNCHANGED <<nbVars, calc, job, predict>>

\* line 43, 127
Upload ==
  /\ pc = "upload"
  /\ \E rc \in ExitCodes :
       External("ngc workspace upload", UploadArgs(script, tmp_dir, id), <<>>,
                rc, "choose")
  /\ UNCHANGED <<script, argv, cwd, setupPy, WANDB_TOKEN, urandom, name_id, num_id,
                 id, tmp_dir, batch_size, total_steps, cmd, stdout, runs, batchRuns>>
  /\ UNCHANGED <<nbVars, calc, job, predict>>

\* lines 46-80, 130-148
ChooseCommand ==
  /\ pc = "choose"
  /\ batch_size' = IF script = "durs" THEN DursBatchSize ELSE batch_size
  /\ total_steps' = IF script = "durs" THEN DursTotalSteps ELSE total_steps
  /\ cmd' = RemoteCommand(script, id, WANDB_TOKEN, name_id, batch_size', total_steps')
  /\ pc' = "fire"
  /\ UNCHANGED <<script, argv, cwd, setupPy, WANDB_TOKEN, urandom, name_id, num_id,
                 id, tmp_dir, stdout, status, cmds, runs, batchRuns>>
  /\ UNCHANGED <<nbVars, calc, job, predict>>

\* lines 83-93, 151-160: the last command; its status is the script's
Fire ==
  /\ pc = "fire"
  /\ \E rc \in ExitCodes :
       /\ cmds' = Append(cmds, Invocation("ngc batch run",
                                          BatchRunArgs(script, name_id), cmd, rc))
       /\ status' = rc
  /\ batchRuns' = batchRuns \cup {[script |-> script, args |-> BatchRunArgs(script, name_id),
                                   text |-> cmd]}
  /\ pc' = "exit"
  /\ UNCHANGED <<script, argv, cwd, setupPy, WANDB_TOKEN, urandom, name_id, num_id,
                 id, tmp_dir, batch_size, total_steps, cmd, stdout, runs>>
  /\ UNCHANGED <<nbVars, calc, job, predict>>

Next ==
  \/ Invoke
  \/ CheckArgs
  \/ CheckSetup
  \/ CheckToken
  \/ SaveState
  \/ Mkdir
  \/ Rsync
  \/ Upload
  \/ ChooseCommand
  \/ Fire
  \/ Terminate

Spec == Init /\ [][Next]_vars

TypeOK ==
  /\ script \in Scripts \cup {"none"}
  /\ pc \in {"idle", "args", "setup", "token", "save", "mkdir", "rsync",
             "upload", "choose", "fire", "exit"}
  /\ status \in {-1, 0, 1}
  /\ runs \in 0..MaxRuns
  /\ setupPy \in BOOLEAN

----------------------------------------------------------------------------
(* The notebooks as a state machine. *)

\* A cell makes the calls cs; k of them return.  A call that raises ends
\* the cell and the run; otherwise the cell `next` is run next.
Call(cs, k, next) ==
  /\ calls' = calls \o SubSeq(cs, 1, k)
  /\ raised' = IF k < Len(cs) THEN LibraryError(cs[k + 1]) ELSE raised
  /\ cell' = IF k < Len(cs) THEN "stopped" ELSE next

\* a cell of shell escapes only
Shell(commands, next) ==
  /\ calls' = calls \o commands
  /\ cell' = next
  /\ UNCHANGED raised

\* A user opens a notebook and runs it.
Open ==
  /\ nb = "none"
  /\ \E n \in Notebooks :
       /\ nb' = n
       /\ cell' = Cells(n)[1]
  /\ UNCHANGED <<scriptVars, calc, job, predict, ckptVars, checkVars, raised, calls, sizeVars,
                 qaVars,
                 punctVars>>

\* the import cell (the constants of the punctuation notebook are in it)
Imports ==
  /\ cell = "imports"
  /\ \E k \in 0..Len(CellCalls(nb, cell)) :
       Call(CellCalls(nb, cell), k, NextCell(nb, cell))
  /\ UNCHANGED <<scriptVars, calc, job, predict, ckptVars, nb, checkVars, sizeVars, qaVars,
                 punctVars>>

\* qa lines 68-71, re lines 65-69: the user's choice of model_type
SetModel ==
  /\ cell = "set_model"
  /\ \E m \in ModelTypes : model_type' = m
  /\ cell' = NextCell(nb, cell)
  /\ UNCHANGED <<scriptVars, calc, job, predict, ckptVars, nb, present, raised, calls,
                 sizeVars, qaVars,
                 punctVars>>

\* qa lines 81-92, re lines 85-93: os.path.exists is asked about the paths
\* in order, up to the first it does not find
CheckFiles ==
  /\ cell = "check"
  /\ \E p \in SUBSET Range(CheckedPaths(nb, model_type)) :
       LET paths == CheckedPaths(nb, model_type)
           miss == FirstMissing(paths, p)
           asked == IF miss = 0 THEN Len(paths) ELSE miss
       IN  /\ present' = p
           /\ calls' = calls \o [k \in 1..asked |-> "os.path.exists"]
           /\ raised' = IF miss = 0 THEN raised ELSE FileNotFound(paths[miss])
           /\ cell' = IF miss = 0 THEN NextCell(nb, cell) ELSE "stopped"
  /\ UNCHANGED <<scriptVars, calc, job, predict, ckptVars, nb, model_type, sizeVars, qaVars,
                 punctVars>>

\* qa lines 109-113, re lines 110-120, punct line 405
GetData ==
  /\ cell = "data"
  /\ \E there \in BOOLEAN : Shell(DataCommands(nb, there), NextCell(nb, cell))
  /\ UNCHANGED <<scriptVars, calc, job, predict, ckptVars, nb, checkVars, sizeVars, qaVars,
                 punctVars>>

\* qa lines 150-192, re lines 149-195, punct lines 435-451, 463-468, 484-517
CreateModules ==
  /\ cell \in {"factory", "bert", "modules"}
  /\ \E k \in 0..Len(CellCalls(nb, cell)) :
       /\ Call(CellCalls(nb, cell), k, NextCell(nb, cell))
       /\ nf' = IF Returned(CellCalls(nb, cell), k, "NeuralModuleFactory")
                  THEN NeuralModuleFactory(LogDir(nb)) ELSE nf
  /\ train_file' = IF nb = "qa" THEN TrainFile ELSE train_file
  /\ UNCHANGED <<ckpt_callback, checkpoint_dir>>
  /\ UNCHANGED <<scriptVars, calc, job, predict, nb, checkVars, sizeVars, test_dataset_idx,
                 test_file, written, punctVars>>

\* qa lines 208-215, re lines 211-222, punct lines 526-548, 568-586.
\* In qa and re, len(train_data_layer) is taken here.
BuildGraph ==
  /\ cell \in {"graph", "eval_graph"}
  /\ \E k \in 0..Len(CellCalls(nb, cell)), size \in TrainSizes(nb) :
       /\ Call(CellCalls(nb, cell), k, NextCell(nb, cell))
       /\ IF Returned(CellCalls(nb, cell), k, "len(train_data_layer)")
            THEN /\ train_data_size' = size
                 /\ steps_per_epoch' = StepsPerEpoch(nb, size)
            ELSE UNCHANGED <<train_data_size, steps_per_epoch>>
  /\ UNCHANGED <<scriptVars, calc, job, predict, ckptVars, nb, checkVars, lr_total_steps, eval_step,
                 qaVars, punctVars>>

\* qa lines 231-240, re lines 238-253, punct lines 602-630.
\* In punct, len(train_data_layer) is taken here.
Callbacks ==
  /\ cell = "callbacks"
  /\ \E k \in 0..Len(CellCalls(nb, cell)), size \in TrainSizes(nb) :
       /\ Call(CellCalls(nb, cell), k, NextCell(nb, cell))
       /\ IF Returned(CellCalls(nb, cell), k, "len(train_data_layer)")
            THEN /\ train_data_size' = size
                 /\ steps_per_epoch' = StepsPerEpoch(nb, size)
            ELSE UNCHANGED <<train_data_size, steps_per_epoch>>
       /\ eval_step' =
            IF Returned(CellCalls(nb, cell), k, "EvaluatorCallback")
              THEN (IF nb = "punct" THEN steps_per_epoch' ELSE RE_eval_step)
              ELSE eval_step
       /\ ckpt_callback' =
            IF Returned(CellCalls(nb, cell), k, "CheckpointCallback")
              THEN CheckpointCallback(nf) ELSE ckpt_callback
  /\ UNCHANGED <<nf, checkpoint_dir>>
  /\ UNCHANGED <<scriptVars, calc, job, predict, nb, checkVars, lr_total_steps, qaVars,
                 punctVars>>

\* qa lines 257-270, re lines 270-282, punct lines 646-655: the first call
\* makes the lr policy
Train ==
  /\ cell = "training"
  /\ \E k \in 0..Len(CellCalls(nb, cell)) :
       /\ Call(CellCalls(nb, cell), k, NextCell(nb, cell))
       /\ lr_total_steps' =
            IF k >= 1 THEN LrTotalSteps(nb, steps_per_epoch) ELSE lr_total_steps
  /\ UNCHANGED <<scriptVars, calc, job, predict, ckptVars, nb, checkVars, train_data_size,
                 steps_per_epoch,
                 eval_step, qaVars, punctVars>>

\* qa lines 287-288: test_dataset is "6b"; the user's choice of the batch
SetTestData ==
  /\ cell = "set_test"
  /\ \E idx \in TestIdxValues : test_dataset_idx' = idx
  /\ cell' = NextCell(nb, cell)
  /\ UNCHANGED <<scriptVars, calc, job, predict, ckptVars, nb, checkVars, raised, calls, sizeVars,
                 train_file, test_file, written, punctVars>>

\* qa lines 297-316
BuildTestGraph ==
  /\ cell = "test_graph"
  /\ test_file' = TestFile("6b", test_dataset_idx)
  /\ \E k \in 0..Len(CellCalls(nb, cell)) :
       Call(CellCalls(nb, cell), k, NextCell(nb, cell))
  /\ UNCHANGED <<scriptVars, calc, job, predict, ckptVars, nb, checkVars, sizeVars,
                 test_dataset_idx,
                 train_file, written, punctVars>>

\* qa lines 327-356
Predict ==
  /\ cell = "predict"
  /\ \E k \in 0..Len(CellCalls(nb, cell)) :
       /\ Call(CellCalls(nb, cell), k, NextCell(nb, cell))
       /\ written' = written \o PredictionFiles(CellCalls(nb, cell), k)
       /\ checkpoint_dir' = IF Made(CellCalls(nb, cell), k, "infer")
                               THEN InferCheckpointDir(nb, nf) ELSE checkpoint_dir
  /\ UNCHANGED <<nf, ckpt_callback>>
  /\ UNCHANGED <<scriptVars, calc, job, predict, nb, checkVars, sizeVars, test_dataset_idx,
                 train_file, test_file, punctVars>>

\* qa lines 388, 425, 450-452, 482-484, 493-495
RunShell ==
  /\ cell \in ShellCells
  /\ Shell(ShellCommands(cell), NextCell(nb, cell))
  /\ UNCHANGED <<scriptVars, calc, job, predict, ckptVars, nb, checkVars, sizeVars, qaVars,
                 punctVars>>

\* qa lines 468-473: each repository is cloned unless its directory exists
CloneEvaluator ==
  /\ cell = "clone"
  /\ \E b, e \in BOOLEAN :
       Shell((IF b THEN <<>> ELSE <<"!git clone bioasq-biobert">>)
             \o (IF e THEN <<>> ELSE <<"!git clone Evaluation-Measures">>),
             NextCell(nb, cell))
  /\ UNCHANGED <<scriptVars, calc, job, predict, ckptVars, nb, checkVars, sizeVars, qaVars,
                 punctVars>>

\* punct lines 698-702: the list of queries
SetQueries ==
  /\ cell = "queries"
  /\ \E qs \in SeqsUpTo(QueryPool, MaxQueries) : queries' = qs
  /\ cell' = NextCell(nb, cell)
  /\ UNCHANGED <<scriptVars, calc, job, predict, ckptVars, nb, checkVars, raised, calls,
                 sizeVars, qaVars,
                 evaluated, loop_i, printed>>

\* punct lines 711-728: nf.infer returns one row for each query
Infer ==
  /\ cell = "infer"
  /\ \E k \in 0..Len(CellCalls(nb, cell)),
        rows \in [1..Len(queries) -> RowPool] :
       /\ Call(CellCalls(nb, cell), k, NextCell(nb, cell))
       /\ evaluated' = IF k = Len(CellCalls(nb, cell)) THEN rows ELSE evaluated
       /\ checkpoint_dir' = IF Made(CellCalls(nb, cell), k, "infer")
                               THEN InferCheckpointDir(nb, nf) ELSE checkpoint_dir
  /\ UNCHANGED <<nf, ckpt_callback>>
  /\ UNCHANGED <<scriptVars, calc, job, predict, nb, checkVars, sizeVars, qaVars, queries,
                 loop_i, printed>>

\* punct lines 737-746: what the decode cell does before its loop
Decode ==
  /\ cell = "decode"
  /\ \E k \in 0..Len(CellCalls(nb, cell)) :
       Call(CellCalls(nb, cell), k, IF queries = <<>> THEN "done" ELSE "decode_loop")
  /\ loop_i' = 1
  /\ UNCHANGED <<scriptVars, calc, job, predict, ckptVars, nb, checkVars, sizeVars, qaVars, queries,
                 evaluated, printed>>

\* punct lines 748-769: one turn of the loop over the queries
DecodeQuery ==
  /\ cell = "decode_loop"
  /\ LET query == queries[loop_i]
         punct_pred == PunctPred(evaluated[loop_i])
         capit_pred == CapitPred(evaluated[loop_i])
         words == Split(Strip(query))
     IN  IF LengthsDiffer(punct_pred, capit_pred, words)
           THEN /\ printed' = Append(printed, QueryLine(query))
                /\ raised' = LengthError
                /\ cell' = "stopped"
                /\ loop_i' = loop_i
           ELSE /\ printed' = Append(printed, QueryLine(query))
                                \o CombinedLines(OutputFrom(words, punct_pred,
                                                            capit_pred, 1))
                /\ raised' = raised
                /\ cell' = IF loop_i = Len(queries) THEN "done" ELSE "decode_loop"
                /\ loop_i' = loop_i + 1
  /\ UNCHANGED <<scriptVars, calc, job, predict, ckptVars, nb, checkVars, calls, sizeVars,
                 qaVars, queries,
                 evaluated>>

NbNext ==
  \/ Open
  \/ Imports
  \/ SetModel
  \/ CheckFiles
  \/ GetData
  \/ CreateModules
  \/ BuildGraph
  \/ Callbacks
  \/ Train
  \/ SetTestData
  \/ BuildTestGraph
  \/ Predict
  \/ RunShell
  \/ CloneEvaluator
  \/ SetQueries
  \/ Infer
  \/ Decode
  \/ DecodeQuery

\* runs of the three notebooks
NbSpec == Init /\ [][NbNext]_vars

\* The decode loop on its own: a list of one query, any string of up to
\* MaxQueryLen characters, and any row of up to MaxTokens positions.
DecodeInit ==
  /\ ScriptRest
  /\ CalcRest
  /\ JobRest
  /\ PredictRest
  /\ nb = "punct"
  /\ cell = "decode_loop"
  /\ model_type = "none"
  /\ present = {}
  /\ raised = NoError
  /\ calls = <<>>
  /\ nf = [log_dir |-> None, checkpoint_dir |-> None]
  /\ ckpt_callback = [folder |-> None]
  /\ checkpoint_dir = None
  /\ written = <<>>
  /\ train_data_size = -1
  /\ steps_per_epoch = -1
  /\ lr_total_steps = -1
  /\ eval_step = -1
  /\ test_dataset_idx = "none"
  /\ train_file = <<>>
  /\ test_file = <<>>
  /\ \E q \in SeqsUpTo(QueryChars, MaxQueryLen), row \in SeqsUpTo(Tokens, MaxTokens) :
       /\ queries = <<q>>
       /\ evaluated = <<row>>
  /\ loop_i = 1
  /\ printed = <<>>

DecodeSpec == DecodeInit /\ [][DecodeQuery]_vars

----------------------------------------------------------------------------
(* The step arithmetic of durs, lines 20-29 and 51-52, for any operands. *)

\* the operands the model tries
MaxDatasetSize == 13
MaxGpuMem == 2
MaxNumGpu == 2
MaxNumEpochs == 2

\* and the scales, as powers of two, they are tried at
SizeScales == {0, 59}
MemScales == {0, 62}
EpochScales == {0, 62}

Pow2(e) == [i \in 1..IntmaxBytes |-> IF i = e \div 8 + 1 THEN 2 ^ (e % 8) ELSE 0]

\* the positive shell integers m * 2^e, m in 1..max and e in scales
Operands(max, scales) ==
  LET exact == { Product(FromInt(m, 1), Pow2(e)) : m \in 1..max, e \in scales }
  IN  { Wrap(x) : x \in { y \in exact : Fits(y) } }

\* the CONSTS section is given positive values
SetConsts ==
  /\ calc.DATASET_SIZE = Unset
  /\ \E size \in Operands(MaxDatasetSize, SizeScales),
        mem \in Operands(MaxGpuMem, MemScales),
        gpus \in Operands(MaxNumGpu, {0}),
        epochs \in Operands(MaxNumEpochs, EpochScales) :
       calc' = [DATASET_SIZE |-> size, GPU_MEM |-> mem, NUM_GPU |-> gpus,
                NUM_EPOCHS |-> epochs, batch_size |-> Unset, total_steps |-> Unset]
  /\ UNCHANGED <<scriptVars, nbVars, job, predict>>

\* lines 51-52
Compute ==
  /\ calc.DATASET_SIZE # Unset
  /\ calc.batch_size = Unset
  /\ calc' = [calc EXCEPT
                !.batch_size = BatchSize(calc.GPU_MEM),
                !.total_steps = TotalSteps(calc.DATASET_SIZE, BatchSize(calc.GPU_MEM),
                                           calc.NUM_GPU, calc.NUM_EPOCHS)]
  /\ UNCHANGED <<scriptVars, nbVars, job, predict>>

CalcNext == SetConsts \/ Compute

CalcSpec == Init /\ [][CalcNext]_vars

----------------------------------------------------------------------------
(* The container of a submission, on its own: its shell runs the command
   line of lines 53-80 and 132-148, simple command by simple command. *)

\* faulty variant of AndThen: the steps are joined by `;`
AndThen_Semicolon(rc) == TRUE

\* a && b: b is run when a has exited 0
AndThen(rc) == rc = 0

\* the command line has a step left that its shell will run
Runnable ==
  /\ Len(job.ran) < Len(job.chain)
  /\ IF job.ran = <<>> THEN TRUE ELSE AndThen(job.ran[Len(job.ran)].rc)

\* lines 83-93, 151-160: the scheduler starts the container of a submission
\* that passed validation, with the command line the script built
StartJob ==
  /\ job.chain = <<>>
  /\ \E s \in Scripts, name \in ArgValues \ {<<>>}, token \in TokenValues \ {<<>>},
        bytes \in RandomValues :
       job' = [script |-> s,
               chain |-> RemoteCommand(s, RunId(s, name, NumId(bytes)), token, name,
                                       DursBatchSize, DursTotalSteps),
               ran |-> <<>>]
  /\ UNCHANGED <<scriptVars, nbVars, calc, predict>>

\* the shell runs the next simple command of the chain, which exits with rc
RunStep ==
  /\ Runnable
  /\ \E rc \in ExitCodes :
       job' = [job EXCEPT !.ran = Append(@, [step |-> job.chain[Len(job.ran) + 1],
                                             rc |-> rc])]
  /\ UNCHANGED <<scriptVars, nbVars, calc, predict>>

\* the shell has nothing left to run: the container ends
EndJob ==
  /\ job.chain # <<>>
  /\ ~Runnable
  /\ job' = [script |-> "none", chain |-> <<>>, ran |-> <<>>]
  /\ UNCHANGED <<scriptVars, nbVars, calc, predict>>

JobNext == StartJob \/ RunStep \/ EndJob

JobSpec == Init /\ [][JobNext]_vars

----------------------------------------------------------------------------
(* The prediction cell of qa, lines 333-342, on its own: what it does with
   the tensors inference returns, whatever their shape.  A tensor or array
   is its shape and its elements in row-major order; a Python list is a
   sequence. *)

\* the batches inference returns, the examples in a batch, the positions of
\* an example and the classes of a head the model tries
MaxTestBatches == 2
MaxFill == 2
MaxPositions == 2
MaxClasses == 4

\* the unique id of the e-th example of the test set, and what the head
\* gives class x at position j of it: all different
IdOf(e) == 1000 + e
LogitOf(e, j, x) == 100 * e + 10 * j + x

Array(shape, data) == [shape |-> shape, data |-> data]

RECURSIVE Sum(_)
Sum(ns) == IF ns = <<>> THEN 0 ELSE Head(ns) + Sum(Tail(ns))

\* the examples before batch b, for batches of fills examples
Before_(fills, b) == Sum(SubSeq(fills, 1, b - 1))

\* what nf.infer returns for [unique_ids, qa_output]: for each of the two,
\* the list of its values on the batches, in the order of the batches
Evaluated(fills, positions, classes) ==
  << [b \in 1..Len(fills) |->
        Array(<<fills[b]>>, [x \in 1..fills[b] |-> IdOf(Before_(fills, b) + x)])],
     [b \in 1..Len(fills) |->
        Array(<<fills[b], positions, classes>>,
              [n \in 1..(fills[b] * positions * classes) |->
                 LogitOf(Before_(fills, b) + (n - 1) \div (positions * classes) + 1,
                         (((n - 1) \div classes) % positions) + 1,
                         ((n - 1) % classes) + 1)]) ] >>

\* t.tolist(): a list for a vector, a list of lists of lists for three axes
ToList(t) ==
  IF Len(t.shape) = 1 THEN t.data
  ELSE [x \in 1..t.shape[1] |->
         [j \in 1..t.shape[2] |->
            [c \in 1..t.shape[3] |->
               t.data[((x - 1) * t.shape[2] + (j - 1)) * t.shape[3] + c]]]]

RECURSIVE Extended(_)

\* faulty variant of Extended: each list is put before what is there
Extended_BatchesReversed(tensors) ==
  IF tensors = <<>> THEN <<>>
  ELSE Extended(Tail(tensors)) \o ToList(Head(tensors))

\* l = []; for t in tensors: l.extend(t.tolist())
Extended(tensors) ==
  IF tensors = <<>> THEN <<>>
  ELSE ToList(Head(tensors)) \o Extended(Tail(tensors))

\* np.asarray(l) for a list of equal lists of equal lists, or an empty list
AsArray(l) ==
  IF l = <<>> THEN Array(<<0>>, <<>>)
  ELSE LET positions == Len(l[1])
           classes == Len(l[1][1])
       IN  Array(<<Len(l), positions, classes>>,
                 [n \in 1..(Len(l) * positions * classes) |->
                    l[(n - 1) \div (positions * classes) + 1]
                     [(((n - 1) \div classes) % positions) + 1]
                     [((n - 1) % classes) + 1]])

\* raise ValueError('array split does not result in an equal division')
ValueError == [type |-> "ValueError", errno |-> "none",
               arg |-> <<"array split does not result in an equal division">>,
               by |-> "library"]

\* the last axis of an array, and the array with that axis w long
LastAxis(a) == a.shape[Len(a.shape)]
Reshaped(a, w) == [i \in 1..Len(a.shape) |-> IF i = Len(a.shape) THEN w ELSE a.shape[i]]

RECURSIVE Size(_)
Size(shape) == IF shape = <<>> THEN 1 ELSE Head(shape) * Size(Tail(shape))

\* np.split(a, sections, axis=-1) raises
SplitRaises(a, sections) == LastAxis(a) % sections # 0

\* faulty variant of NpSplit: the sections come last first
NpSplit_Swapped(a, sections) ==
  LET w == LastAxis(a) \div sections
  IN  [k \in 1..sections |->
         Array(Reshaped(a, w),
               [n \in 1..Size(Reshaped(a, w)) |->
                  a.data[((n - 1) \div w) * LastAxis(a) + (sections - k) * w
                         + ((n - 1) % w) + 1]])]

\* np.split(a, sections, axis=-1) when it does not raise: the k-th section
\* holds, of every row, the k-th run of w elements
NpSplit(a, sections) ==
  LET w == LastAxis(a) \div sections
  IN  [k \in 1..sections |->
         Array(Reshaped(a, w),
               [n \in 1..Size(Reshaped(a, w)) |->
                  a.data[((n - 1) \div w) * LastAxis(a) + (k - 1) * w
                         + ((n - 1) % w) + 1]])]

\* nf.infer has returned; the cell is at line 336
PredictInit ==
  /\ ScriptRest /\ NbRest /\ CalcRest /\ JobRest
  /\ \E fills \in SeqsUpTo(1..MaxFill, MaxTestBatches),
        positions \in 1..MaxPositions, classes \in 1..MaxClasses :
       predict = [at |-> "unique_ids",
                  evaluated_tensors |-> Evaluated(fills, positions, classes),
                  unique_ids |-> <<>>, logits |-> <<>>,
                  start_logits |-> <<>>, end_logits |-> <<>>, raised |-> NoError]

\* lines 336-338
ExtendUniqueIds ==
  /\ predict.at = "unique_ids"
  /\ predict' = [predict EXCEPT !.unique_ids = Extended(predict.evaluated_tensors[1]),
                                !.at = "logits"]
  /\ UNCHANGED <<scriptVars, nbVars, calc, job>>

\* lines 339-341
ExtendLogits ==
  /\ predict.at = "logits"
  /\ predict' = [predict EXCEPT !.logits = Extended(predict.evaluated_tensors[2]),
                                !.at = "split"]
  /\ UNCHANGED <<scriptVars, nbVars, calc, job>>

\* line 342
SplitLogits ==
  /\ predict.at = "split"
  /\ LET a == AsArray(predict.logits)
     IN  IF SplitRaises(a, 2)
           THEN predict' = [predict EXCEPT !.raised = ValueError, !.at = "stopped"]
           ELSE predict' = [predict EXCEPT !.start_logits = NpSplit(a, 2)[1],
                                           !.end_logits = NpSplit(a, 2)[2],
                                           !.at = "get_predictions"]
  /\ UNCHANGED <<scriptVars, nbVars, calc, job>>

PredictNext == ExtendUniqueIds \/ ExtendLogits \/ SplitLogits

PredictSpec == PredictInit /\ [][PredictNext]_vars

----------------------------------------------------------------------------
(* Vocabulary of the properties. *)

\* a script is executing or has just exited
Executing == script \in Scripts

\* exactly one positional argument, and it is not the empty string
OneNonEmptyArg == Len(argv) = 1 /\ argv[1] # <<>>

\* the inputs pass every check the script makes
PassesValidation ==
  /\ OneNonEmptyArg
  /\ setupPy
  /\ script = "durs" => WANDB_TOKEN # <<>>

\* the programs invoked so far, in order
Progs == [i \in 1..Len(cmds) |-> cmds[i].prog]

\* how often the execution has invoked prog
Count(prog) == Cardinality({i \in 1..Len(cmds) : cmds[i].prog = prog})

StepOrder == <<"mkdir", "rsync", "ngc workspace upload", "ngc batch run">>

----------------------------------------------------------------------------
(* Validation. *)

\* C1: with no positional argument, with more than one, or with a single
\* empty one, a launch script prints exactly the usage line
\* "Usage: ./<script name> [experiment name id]" and exits with status 1.
C1_UsageOnBadArguments ==
  (/\ Executing
   /\ pc # "args"
   /\ Len(argv) = 0 \/ Len(argv) > 1 \/ argv = << <<>> >>)
  => /\ pc = "exit"
     /\ stdout = << <<"Usage: ./", script, " [experiment name id]">> >>
     /\ status = 1

\* C1 witness: two arguments, the first not empty, and the script has exited
\* with the usage line
C1_Witness ==
  /\ pc = "exit"
  /\ Len(argv) = 2
  /\ argv[1] # <<>>
  /\ stdout = <<UsageLine(script)>>
  /\ status = 1

\* C2 as stated: every launch script, run with one non-empty argument where
\* setup.py exists and WANDB_TOKEN is unset or empty, prints a message and
\* exits with nonzero status without launching a job.
C2_EveryScriptRequiresToken ==
  (/\ Executing
   /\ OneNonEmptyArg
   /\ setupPy
   /\ WANDB_TOKEN = <<>>
   /\ pc \notin {"args", "setup", "token"})
  => /\ pc = "exit"
     /\ stdout # <<>>
     /\ status # 0
     /\ Count("ngc batch run") = 0

\* C2 amended: the duration-predictor script, run with one non-empty
\* argument where setup.py exists and WANDB_TOKEN is unset or empty, prints
\* "Please, provide WanDB token." and exits with status 1 without invoking
\* any external command.
C2_DursRequiresToken ==
  (/\ script = "durs"
   /\ OneNonEmptyArg
   /\ setupPy
   /\ WANDB_TOKEN = <<>>
   /\ pc \notin {"args", "setup", "token"})
  => /\ pc = "exit"
     /\ stdout = << <<"Please, provide WanDB token.">> >>
     /\ status = 1
     /\ cmds = <<>>

\* C2 witness: the durs script has exited on the token check
C2_Witness ==
  /\ script = "durs"
  /\ pc = "exit"
  /\ OneNonEmptyArg
  /\ setupPy
  /\ WANDB_TOKEN = <<>>
  /\ status = 1

C4_FailFast ==
  (/\ Executing
   /\ \/ Len(argv) # 1
      \/ Positional(argv, 1) = <<>>
      \/ ~setupPy
      \/ script = "durs" /\ WANDB_TOKEN = <<>>)
  => /\ cmds = <<>>
     /\ pc \in {"args", "setup", "token", "exit"}
     /\ pc = "exit" => status = 1

\* C4 witness: an execution that failed only the last check has exited, and
\* the scheduler has received nothing from it
C4_Witness ==
  /\ script = "durs"
  /\ pc = "exit"
  /\ OneNonEmptyArg
  /\ setupPy
  /\ WANDB_TOKEN = <<>>
  /\ cmds = <<>>
  /\ batchRuns = {}

----------------------------------------------------------------------------
(* The external steps. *)

\* C5: the external steps of an execution occur in the fixed order mkdir,
\* rsync into the temporary directory, upload of that directory, batch run;
\* an execution that passes validation and has exited has made all four, so
\* the batch job is never submitted before the upload has been executed.
C5_StepOrder ==
  /\ Len(cmds) <= Len(StepOrder)
  /\ \A i \in 1..Len(cmds) : cmds[i].prog = StepOrder[i]
  /\ Len(cmds) >= 1 => cmds[1].args[2] = tmp_dir
  /\ Len(cmds) >= 2 => cmds[2].args[2] = <<".">> /\ cmds[2].args[3] = tmp_dir
  /\ Len(cmds) >= 3 => cmds[3].args[3] = tmp_dir
  /\ (Executing /\ PassesValidation /\ pc = "exit") => Len(cmds) = Len(StepOrder)

\* C5 witness: a validated execution has exited after its four steps
C5_Witness ==
  /\ pc = "exit"
  /\ PassesValidation
  /\ Progs = StepOrder

\* C6: in one execution each external command (mkdir, rsync, ngc workspace
\* upload, ngc batch run) is invoked at most once, whatever its exit status;
\* an execution that passes validation and has exited has invoked ngc batch
\* run exactly once, as its last command, and the script ends with it.
C6_NoRetry ==
  /\ \A p \in {StepOrder[i] : i \in 1..Len(StepOrder)} : Count(p) <= 1
  /\ (Executing /\ PassesValidation /\ pc = "exit") =>
       /\ Count("ngc batch run") = 1
       /\ cmds[Len(cmds)].prog = "ngc batch run"
       /\ status = cmds[Len(cmds)].rc
  /\ Count("ngc batch run") = 1 => pc = "exit"

\* C6 witness: every command of a validated execution failed, each was
\* invoked once, and the script has exited with the status of the batch run
C6_Witness ==
  /\ pc = "exit"
  /\ PassesValidation
  /\ Len(cmds) = 4
  /\ \A i \in 1..Len(cmds) : cmds[i].rc = 1
  /\ status = 1

\* the cp step of a remote command: its words
CopyStep(chain) ==
  LET S == {i \in 1..Len(chain) : chain[i][1] = <<"cp">>}
  IN  IF S = {} THEN <<>> ELSE chain[CHOOSE i \in S : TRUE]

\* C7: once validation has passed, a nonzero exit of mkdir, rsync or ngc
\* workspace upload does not stop the script: it exits only after the batch
\* run, whose remote command copies <workspace mount>/nemos/<id>, the
\* destination of the upload, whether or not the upload succeeded.
C7_NoPartialFailureHandling ==
  (/\ Executing
   /\ PassesValidation
   /\ \E i \in 1..Len(cmds) : cmds[i].prog # "ngc batch run" /\ cmds[i].rc # 0)
  => /\ pc # "exit" \/ Count("ngc batch run") = 1
     /\ pc = "exit" =>
          /\ Len(cmds) = 4
          /\ cmds[3].prog = "ngc workspace upload"
          /\ cmds[4].prog = "ngc batch run"
          /\ CopyStep(cmds[4].text) =
               << <<"cp">>, <<"-R">>, <<"/ws", "/nemos/">> \o id, <<"/nemo">> >>
          /\ cmds[3].args[5] = <<"nemos/">> \o id

\* C7 witness: mkdir, rsync and the upload all failed and the batch job
\* was submitted all the same
C7_Witness ==
  /\ pc = "exit"
  /\ PassesValidation
  /\ Len(cmds) = 4
  /\ cmds[1].rc = 1 /\ cmds[2].rc = 1 /\ cmds[3].rc = 1
  /\ cmds[4].prog = "ngc batch run"
  /\ cmds[4].rc = 0

----------------------------------------------------------------------------
(* The flags of the training command and of the submission. *)

\* the value of --flag=value among the words of a simple command
\* (<<"?">> when the flag is absent)
FlagValue(words, flag) ==
  LET S == {i \in 1..Len(words) : words[i][1] = flag}
  IN  IF S = {} THEN <<"?">> ELSE Tail(words[CHOOSE i \in S : TRUE])

\* the (flag, value) pairs of an argument list in which every flag takes
\* one value, as in the ngc batch run of both scripts
FlagPairs(args) == [k \in 1..(Len(args) \div 2) |-> <<args[2 * k - 1], args[2 * k]>>]

\* the values given to the occurrences of --flag, in order
FlagArgs(args, flag) ==
  LET given == SelectSeq(FlagPairs(args), LAMBDA q : q[1] = <<flag>>)
  IN  [k \in 1..Len(given) |-> given[k][2]]

\* the training command of a remote command: the last of the chain
TrainWords(chain) == chain[Len(chain)]

\* C8: in the duration-predictor script --batch_size is GPU_MEM * 6,
\* total_steps is (floor(DATASET_SIZE / (batch_size * NUM_GPU)) + 1) *
\* NUM_EPOCHS, --warmup is floor(total_steps / 50) and --num_epochs is
\* NUM_EPOCHS; with GPU_MEM=32, NUM_GPU=8, DATASET_SIZE=354780 and
\* NUM_EPOCHS=100 these are 192, 23100, 462 and 100, in the command built
\* and in the command submitted.
C8_DursTrainingFlags ==
  (script = "durs" /\ pc \in {"fire", "exit"} /\ cmd # <<>>) =>
    /\ DURS_GPU_MEM = 32 /\ DURS_NUM_GPU = 8
    /\ DATASET_SIZE = 354780 /\ NUM_EPOCHS = 100
    /\ batch_size = DURS_GPU_MEM * 6
    /\ batch_size = 192
    /\ total_steps = ((DATASET_SIZE \div (batch_size * DURS_NUM_GPU)) + 1) * NUM_EPOCHS
    /\ total_steps = 23100
    /\ FlagValue(TrainWords(cmd), "--batch_size=") = <<"192">>
    /\ FlagValue(TrainWords(cmd), "--warmup=") = <<ToString(total_steps \div 50)>>
    /\ FlagValue(TrainWords(cmd), "--warmup=") = <<"462">>
    /\ FlagValue(TrainWords(cmd), "--num_epochs=") = <<"100">>
    /\ pc = "exit" => cmds[Len(cmds)].text = cmd

\* C8 witness: the durs script has submitted its command
C8_Witness ==
  /\ script = "durs"
  /\ pc = "exit"
  /\ Count("ngc batch run") = 1
  /\ FlagValue(TrainWords(cmds[Len(cmds)].text), "--warmup=") = <<"462">>

FixedFlagNames ==
  {<<"--image">>, <<"--ace">>, <<"--instance">>, <<"--result">>,
   <<"--datasetid">>, <<"--workspace">>}

\* the flags of a submission other than --name and --commandline, each with
\* its value, in the order given
FixedFlags(args) == SelectSeq(FlagPairs(args), LAMBDA q : q[1] \in FixedFlagNames)

\* C9: any two submissions made by executions of the same launch script pass
\* the same values of --image, --ace, --instance, --result, every
\* --datasetid and --workspace to ngc batch run, whatever the positional
\* argument, the token and the random suffix were; every one of these flags
\* is given, and --name is the positional argument.
C9_FixedSubmissionFlags ==
  /\ \A s \in Scripts :
       Cardinality({FixedFlags(j.args) : j \in {k \in batchRuns : k.script = s}}) <= 1
  /\ \A j \in batchRuns :
       LET fixed == FixedFlags(j.args)
       IN  /\ {fixed[k][1] : k \in 1..Len(fixed)} = FixedFlagNames
           /\ Len(fixed) = Len(FlagPairs(j.args)) - 1
  /\ (Executing /\ pc = "exit" /\ Count("ngc batch run") = 1) =>
       FlagArgs(cmds[Len(cmds)].args, "--name") = <<argv[1]>>

\* C9 witness: the scheduler holds two submissions of the durs script that
\* differ in --name and in --commandline
C9_Witness ==
  \E j1, j2 \in batchRuns :
    /\ j1.script = "durs" /\ j2.script = "durs"
    /\ FlagArgs(j1.args, "--name") # FlagArgs(j2.args, "--name")
    /\ j1.text # j2.text
    /\ FixedFlags(j1.args) = FixedFlags(j2.args)

\* C10: the --nproc_per_node value given to the distributed launcher in the
\* remote command equals NUM_GPU, which is also the GPU count in the
\* --instance flag dgx1v.<GPU_MEM>g.<NUM_GPU>.norm of the same submission.
C10_ProcessCountIsNumGpu ==
  \A j \in batchRuns :
    LET nproc == FlagValue(TrainWords(j.text), "--nproc_per_node=")
        inst  == FlagArgs(j.args, "--instance")
    IN  /\ Len(inst) = 1
        /\ Len(inst[1]) = 5
        /\ inst[1][1] = "dgx1v." /\ inst[1][3] = "g." /\ inst[1][5] = ".norm"
        /\ inst[1][2] = ToString(GPU_MEM(j.script))
        /\ nproc = <<inst[1][4]>>
        /\ nproc = <<ToString(NUM_GPU(j.script))>>
        /\ nproc = <<"8">>

\* C10 witness: both scripts have submitted a job
C10_Witness ==
  /\ \E j \in batchRuns : j.script = "durs"
  /\ \E j \in batchRuns : j.script = "quartznet"
  /\ \A j \in batchRuns :
       FlagValue(TrainWords(j.text), "--nproc_per_node=") = <<"8">>


----------------------------------------------------------------------------
(* The working tree and the copy of it. *)

\* path is the directory dir or lies in it
Within(path, dir) == Len(dir) <= Len(path) /\ SubSeq(path, 1, Len(dir)) = dir

\* what the commands of the execution have read and written so far
AllReads == UNION {Reads(cmds[i], cwd) : i \in 1..Len(cmds)}
AllWrites == UNION {Writes(cmds[i], cwd) : i \in 1..Len(cmds)}

\* the upload takes the copy, not the working tree
UploadsTheCopy ==
  \A i \in 1..Len(cmds) :
    cmds[i].prog = "ngc workspace upload" =>
      Reads(cmds[i], cwd) = {TmpDir(id)} /\ ~Within(cwd, TmpDir(id))

\* reads are of the working tree and of the copy, writes are under
\* /tmp/nemos/<id>, and nothing in the working tree is written
LeavesWorkingTreeAlone ==
  /\ AllReads \subseteq {cwd, TmpDir(id)}
  /\ \A w \in AllWrites : Within(w, TmpDir(id)) /\ ~Within(w, cwd)
  /\ UploadsTheCopy

\* C11 as stated: in every execution, from whatever working directory, the
\* script reads only the working tree (and its copy, to upload it), writes
\* only under /tmp/nemos/<id>, creates, changes or deletes nothing in the
\* working tree, and uploads the copy.  Refuted: started in /tmp (or in any
\* directory that holds /tmp/nemos/<id>), mkdir and rsync write inside the
\* working tree.
C11_NeverTouchesWorkingTree == Executing => LeavesWorkingTreeAlone

\* C11, amended: the same, for every execution whose working directory does
\* not hold /tmp/nemos/<id>.
C11_CopyOutsideWorkingTree ==
  (Executing /\ tmp_dir # <<>> /\ ~Within(tmp_dir, cwd)) => LeavesWorkingTreeAlone

\* mkdir, rsync and the upload have all run, from a directory outside /tmp
C11_Witness ==
  /\ Executing
  /\ ~Within(tmp_dir, cwd)
  /\ Count("mkdir") = 1 /\ Count("rsync") = 1 /\ Count("ngc workspace upload") = 1
  /\ AllWrites = {tmp_dir}
  /\ cwd \in AllReads

----------------------------------------------------------------------------
(* The run id. *)

\* SAVE STATE has chosen the run id of this execution
IdChosen == Executing /\ id # <<>>

\* the letters and digits among the bytes read from /dev/urandom
Letters == SelectSeq(urandom, LAMBDA c : c \in Alnum)

\* the id is the experiment name, "_" and num_id, after "durs-lj_" in durs
IdOfNameAndRandom ==
  /\ name_id = argv[1]
  /\ id = (IF script = "durs" THEN <<"durs-lj_">> ELSE <<>>) \o name_id \o <<"_">> \o num_id

\* the temporary directory, the destination of the upload and the directory
\* the remote command copies to /nemo all carry the id of this execution,
\* and the workspace uploaded to is the one mounted at the mount point
SameIdEverywhere ==
  /\ tmp_dir = <<"/tmp", "/nemos/">> \o id
  /\ \A i \in 1..Len(cmds) :
       /\ cmds[i].prog = "mkdir" => cmds[i].args[2] = tmp_dir
       /\ cmds[i].prog = "rsync" => cmds[i].args[3] = tmp_dir
       /\ cmds[i].prog = "ngc workspace upload" =>
            /\ cmds[i].args[1] = <<"stan">>
            /\ cmds[i].args[3] = tmp_dir
            /\ cmds[i].args[5] = <<"nemos/">> \o id
       /\ cmds[i].prog = "ngc batch run" =>
            /\ CopyStep(cmds[i].text) =
                 << <<"cp">>, <<"-R">>, <<"/ws", "/nemos/">> \o id, <<"/nemo">> >>
            /\ cmds[i].args[Len(cmds[i].args)] = <<"stan", ":", "/ws">>

\* C21 as stated: within one execution the temporary directory is
\* /tmp/nemos/<id>, the upload goes to nemos/<id> and the remote command
\* copies <workspace mount point>/nemos/<id>, for one and the same <id>,
\* which is the experiment name, "_" and 13 random alphanumeric characters
\* (after "durs-lj_" in durs).  Refuted in the number of characters: when
\* the ten lines read from /dev/urandom hold fewer than 13 letters and
\* digits, num_id is shorter.
C21_IdWithThirteenCharacters ==
  IdChosen =>
    /\ IdOfNameAndRandom
    /\ SameIdEverywhere
    /\ Len(num_id) = 13
    /\ \A k \in 1..Len(num_id) : num_id[k] \in Alnum

\* C21, amended: the same, with "up to 13" for "13": num_id is the first
\* 13 letters and digits of the ten lines read from /dev/urandom, or all of
\* them when there are fewer.
C21_OneRunId ==
  IdChosen =>
    /\ IdOfNameAndRandom
    /\ SameIdEverywhere
    /\ num_id = SubSeq(Letters, 1, IF Len(Letters) < 13 THEN Len(Letters) ELSE 13)

\* a durs execution has uploaded and submitted under an id with 13 random
\* characters
C21_Witness ==
  /\ script = "durs"
  /\ pc = "exit"
  /\ Len(num_id) = 13
  /\ id = <<"durs-lj_", "exp1", "_">> \o num_id
  /\ Count("ngc workspace upload") = 1
  /\ Count("ngc batch run") = 1

\* an execution whose id has only 7 random characters
C21_ShortId ==
  /\ IdChosen
  /\ Len(num_id) = 7
  /\ Count("ngc batch run") = 1

----------------------------------------------------------------------------
(* The token in the submission. *)

\* the wandb login step of a remote command: its words
LoginStep(chain) ==
  LET S == {i \in 1..Len(chain) : chain[i][1] = <<"wandb">>}
  IN  IF S = {} THEN <<>> ELSE chain[CHOOSE i \in S : TRUE]

\* the remote command with the argument of its wandb login blanked
Untokened(chain) ==
  [i \in 1..Len(chain) |->
     IF chain[i][1] = <<"wandb">> THEN <<chain[i][1], chain[i][2]>> ELSE chain[i]]

\* the durs submissions made so far
DursRuns == {j \in batchRuns : j.script = "durs"}

\* two submissions made under the same name and the same run id
SameButToken(j1, j2) ==
  /\ FlagArgs(j1.args, "--name") = FlagArgs(j2.args, "--name")
  /\ CopyStep(j1.text) = CopyStep(j2.text)

\* C23: the durs script puts the literal value of WANDB_TOKEN into the
\* --commandline string, as the argument of wandb login; two submissions
\* that differ only in the token have different command lines, which differ
\* in that argument alone, and every other flag of the two is the same.
C23_TokenInCommandLine ==
  /\ (script = "durs" /\ pc = "exit" /\ Count("ngc batch run") = 1) =>
       /\ WANDB_TOKEN # <<>>
       /\ LoginStep(cmds[Len(cmds)].text) = << <<"wandb">>, <<"login">>, WANDB_TOKEN >>
       /\ \A k \in 1..Len(cmds[Len(cmds)].args) : cmds[Len(cmds)].args[k] # WANDB_TOKEN
  /\ \A j1, j2 \in DursRuns :
       SameButToken(j1, j2) =>
         /\ j1.args = j2.args
         /\ Untokened(j1.text) = Untokened(j2.text)
         /\ (LoginStep(j1.text) # LoginStep(j2.text)) <=> (j1.text # j2.text)

\* C23 witness: two durs submissions under one name and one run id, one with
\* each token
C23_Witness ==
  \E j1, j2 \in DursRuns :
    /\ SameButToken(j1, j2)
    /\ LoginStep(j1.text)[3] = <<"tokA">>
    /\ LoginStep(j2.text)[3] = <<"tokB">>
    /\ j1.text # j2.text
    /\ j1.args = j2.args

----------------------------------------------------------------------------
(* The prediction cell of qa. *)

\* the class count the notebook gives its head
NotebookClasses == QA_num_classes

\* the examples in each batch inference returned, and their total
Fills ==
  [b \in 1..Len(predict.evaluated_tensors[1]) |-> predict.evaluated_tensors[1][b].shape[1]]
Examples == Sum(Fills)

\* both loops have run
Flattened == predict.at \in {"split", "get_predictions", "stopped"}

\* the split has been made
SplitDone == predict.at = "get_predictions"

\* a[i][j] of an array of three axes, as a list
Item(a, i, j) ==
  [c \in 1..a.shape[3] |-> a.data[((i - 1) * a.shape[2] + (j - 1)) * a.shape[3] + c]]

\* the positions of an example and the classes of a position in logits
Positions == Len(predict.logits[1])
Classes == Len(predict.logits[1][1])

\* start and end have the examples and positions of logits, and at every
\* position the first and the second half of its classes
SplitInHalves(start, end, logits, half) ==
  /\ start.shape = <<Len(logits), Len(logits[1]), half>>
  /\ end.shape = start.shape
  /\ \A i \in 1..Len(logits), j \in 1..Len(logits[1]) :
       /\ Item(start, i, j) = SubSeq(logits[i][j], 1, half)
       /\ Item(end, i, j) = SubSeq(logits[i][j], half + 1, 2 * half)

\* start[i][j] holds the one value of class 0, end[i][j] that of class 1
SplitInSingles(start, end, logits) ==
  \A i \in 1..Len(logits), j \in 1..Len(logits[1]) :
    /\ Item(start, i, j) = <<logits[i][j][1]>>
    /\ Item(end, i, j) = <<logits[i][j][2]>>

C24_FourClasses ==
  /\ SplitDone
  /\ Len(predict.logits) = 1
  /\ Classes = 4
  /\ Item(predict.start_logits, 1, 1) = <<LogitOf(1, 1, 1), LogitOf(1, 1, 2)>>

\* logits of three classes: the split has raised
C24_ThreeClasses ==
  /\ predict.at = "stopped"
  /\ Classes = 3

\* C25: after the two extend loops unique_ids and logits have the same
\* length, the number of examples in the batches inference returned, and
\* for every batch b and every x the x-th example of batch b is at the same
\* place k of both, after the examples of the batches before b and the x-1
\* examples before it in b: unique_ids[k] is its id and logits[k] its logits.
C25_FlatteningKeepsPairs ==
  Flattened =>
    /\ Len(predict.unique_ids) = Examples
    /\ Len(predict.logits) = Len(predict.unique_ids)
    /\ \A b \in 1..Len(Fills) :
         \A x \in 1..Fills[b] :
           LET k == Before_(Fills, b) + x
           IN  /\ predict.unique_ids[k] = ToList(predict.evaluated_tensors[1][b])[x]
               /\ predict.logits[k] = ToList(predict.evaluated_tensors[2][b])[x]
               /\ predict.unique_ids[k] = IdOf(k)
               /\ \A j \in 1..Len(predict.logits[k]) :
                    \A c \in 1..Len(predict.logits[k][j]) :
                      predict.logits[k][j][c] = LogitOf(k, j, c)

\* C25 witness: a batch of two examples and a batch of one have been
\* flattened
C25_Witness ==
  /\ Flattened
  /\ Fills = <<2, 1>>
  /\ predict.unique_ids = <<IdOf(1), IdOf(2), IdOf(3)>>
  /\ Len(predict.logits) = 3
  /\ predict.logits[3][1][1] = LogitOf(3, 1, 1)

----------------------------------------------------------------------------
(* The remote command as the container runs it. *)

\* a simple command is the training command
IsTraining(step) ==
  /\ Len(step) >= 3
  /\ step[1] = <<"python">>
  /\ step[3] = <<"torch.distributed.launch">>

\* the steps the container has run that are the training command
TrainingRuns == {k \in 1..Len(job.ran) : IsTraining(job.ran[k].step)}

\* what a simple command does: its first two words, or its only one
Does(step) == IF Len(step) = 1 THEN step[1] ELSE step[1] \o <<" ">> \o step[2]

\* the setup of a container, as the scripts' remote commands spell it
SetupOf(s) ==
  IF s = "durs" THEN
    << <<"nvidia-smi">>, <<"apt-get", " ", "update">>, <<"apt-get", " ", "install">>,
       <<"pip", " ", "install">>, <<"cp", " ", "-R">>, <<"cd", " ", "/nemo">>,
       <<"pip", " ", "install">>, <<"pip", " ", "install">>, <<"wandb", " ", "login">> >>
  ELSE
    << <<"nvidia-smi">>, <<"apt-get", " ", "update">>, <<"apt-get", " ", "install">>,
       <<"cp", " ", "-R">>, <<"cd", " ", "/nemo">>, <<"pip", " ", "install">> >>

\* a setup step the container ran exited nonzero
SetupFailed ==
  \E i \in 1..Len(job.ran) : ~IsTraining(job.ran[i].step) /\ job.ran[i].rc # 0

\* C22: the remote command is one && chain: when the container has started
\* the training command, it has run before it every setup step, in order
\* (nvidia-smi, apt-get update, apt-get install, in durs the librosa install,
\* the copy of the uploaded tree, cd, pip install, and in durs the wandb
\* install and login), and each exited 0; once a setup step has exited
\* nonzero nothing further is run, so the training command is never started.
C22_TrainingOnlyAfterSetup ==
  /\ \A k \in TrainingRuns :
       /\ [i \in 1..(k - 1) |-> Does(job.ran[i].step)] = SetupOf(job.script)
       /\ \A i \in 1..(k - 1) : job.ran[i].rc = 0
  /\ SetupFailed =>
       /\ TrainingRuns = {}
       /\ job.ran[Len(job.ran)].rc # 0
       /\ ~Runnable

\* the durs container has run its nine setup steps and started the training
C22_Witness ==
  /\ job.script = "durs"
  /\ TrainingRuns = {10}
  /\ \E i \in 1..9 : job.ran[i].step = <<<<"wandb">>, <<"login">>, <<"tokA">>>>

\* a container whose copy of the uploaded tree failed has stopped there
C22_FailedCopy ==
  /\ Len(job.ran) = 4
  /\ job.ran[4].step[1] = <<"cp">>
  /\ job.ran[4].rc = 1
  /\ job.script = "quartznet"

----------------------------------------------------------------------------
(* Vocabulary of the notebook properties. *)

\* position of the first and of the last call named e in calls; 0: none
First(e) ==
  IF \E k \in 1..Len(calls) : calls[k] = e
    THEN CHOOSE k \in 1..Len(calls) : calls[k] = e /\ \A j \in 1..(k - 1) : calls[j] # e
    ELSE 0
Last(e) ==
  IF \E k \in 1..Len(calls) : calls[k] = e
    THEN CHOOSE k \in 1..Len(calls) : calls[k] = e /\ \A j \in (k + 1)..Len(calls) : calls[j] # e
    ELSE 0

\* where the BioBERT notebooks say the checkpoint file `name` is
Checkpoint(name) ==
  IF nb = "qa" THEN <<".", "/", "checkpoints", "/", model_type, "/", "qa_squad", "/", name>>
  ELSE <<".", "/", "checkpoints", "/", model_type, "/", name>>

\* the check cell of a BioBERT notebook has run
CheckRan == nb \in {"qa", "re"} /\ First("os.path.exists") > 0

\* the first file the check cell must miss, in the order encoder, head (qa
\* only), configuration; <<>> when all are there
MustMiss ==
  IF Checkpoint("BERT.pt") \notin present THEN Checkpoint("BERT.pt")
  ELSE IF nb = "qa" /\ Checkpoint("TokenClassifier.pt") \notin present
         THEN Checkpoint("TokenClassifier.pt")
  ELSE IF Checkpoint("bert_config.json") \notin present
         THEN Checkpoint("bert_config.json")
  ELSE <<>>

----------------------------------------------------------------------------
(* Errors of the notebooks. *)

\* C12: when the check cell of a BioBERT notebook has run and a checkpoint
\* file is missing, the run has ended with OSError(ENOENT) carrying the path
\* of the first missing file in the order BERT.pt, TokenClassifier.pt (qa
\* only), bert_config.json, and nothing but imports and the existence tests
\* has been called: no module was constructed.  When all files are there,
\* the notebook's code has raised no such error.
C12_FileNotFoundNamesFirstMissing ==
  CheckRan =>
    IF MustMiss = <<>>
      THEN raised.type # "OSError"
      ELSE /\ raised = [type |-> "OSError", errno |-> "ENOENT", arg |-> MustMiss,
                        by |-> "notebook"]
           /\ cell = "stopped"
           /\ Range(calls) \subseteq {"import", "os.path.exists"}

\* qa: the encoder is there, the head and the configuration are not, and
\* the error names the head
C12_Witness ==
  /\ nb = "qa"
  /\ cell = "stopped"
  /\ Checkpoint("BERT.pt") \in present
  /\ Checkpoint("TokenClassifier.pt") \notin present
  /\ Checkpoint("bert_config.json") \notin present
  /\ raised.type = "OSError"
  /\ raised.arg = Checkpoint("TokenClassifier.pt")

\* C13 as stated: the only error a notebook's own code raises is the
\* file-not-found error of the check cell.  Refuted: the decode loop of the
\* punctuation notebook raises ValueError itself.
C13_OnlyFileNotFound ==
  raised.by = "notebook" => (raised.type = "OSError" /\ raised.errno = "ENOENT")

\* C13, amended: a notebook's own code raises two errors only, the
\* file-not-found error of the check cell of the BioBERT notebooks and the
\* ValueError of the decode loop of the punctuation notebook; and no error,
\* its own or a library's, is caught: a run in which one was raised has
\* stopped there.
C13_FileNotFoundAndLengthError ==
  /\ raised.by = "notebook" =>
       \/ /\ nb \in {"qa", "re"}
          /\ raised.type = "OSError" /\ raised.errno = "ENOENT"
          /\ raised.arg \in {Checkpoint("BERT.pt"), Checkpoint("TokenClassifier.pt"),
                             Checkpoint("bert_config.json")}
       \/ /\ nb = "punct"
          /\ raised.type = "ValueError"
          /\ raised.arg = <<"Pred and words must be of the same length">>
  /\ raised.type # "none" <=> cell = "stopped"

\* the decode loop has raised its ValueError
C13_Witness ==
  /\ nb = "punct"
  /\ cell = "stopped"
  /\ raised.by = "notebook"
  /\ raised.type = "ValueError"

----------------------------------------------------------------------------
(* The question-answering notebook. *)

\* the steps of the qa notebook, each named by the call that carries it out:
\* a file is verified, the encoder loaded, the head restored, the loss put
\* on the training graph, the model trained, the test graph built,
\* inference run, logits decoded, the two files written, the evaluator run
QaSteps ==
  <<"os.path.exists", "get_pretrained_lm_model", "restore_from", "task_loss()",
    "train", "test_data_layer()", "infer", "get_predictions", "write nbest",
    "write predictions", "!java EvaluatorTask1b">>

\* step a was taken, and for the last time before step b was first taken
Before(a, b) == First(a) > 0 /\ Last(a) < First(b)

\* C14: in every run of the qa notebook the steps happen in the order of
\* QaSteps: a step is taken only after every step before it has been taken
\* and has returned; so inference never precedes the return of training and
\* the evaluator never precedes the writing of the n-best file.  A run that
\* reaches the end has taken every step.
C14_QaStepsInOrder ==
  nb = "qa" =>
    /\ \A k \in 1..(Len(QaSteps) - 1) :
         First(QaSteps[k + 1]) > 0 => Before(QaSteps[k], QaSteps[k + 1])
    /\ First("infer") > 0 => Before("train", "infer")
    /\ First("!java EvaluatorTask1b") > 0 => Before("write nbest", "!java EvaluatorTask1b")
    /\ cell = "done" => \A k \in 1..Len(QaSteps) : First(QaSteps[k]) > 0

\* a run of the qa notebook that has invoked the evaluator
C14_Witness ==
  /\ nb = "qa"
  /\ cell = "done"
  /\ First("train") > 0
  /\ First("train") < First("infer")
  /\ First("write nbest") < First("!java EvaluatorTask1b")

\* the two files as the claim describes them
NbestJson ==
  [path |-> <<"output_bioasq", "/", "nbest.json">>, mode |-> "w",
   data |-> << [json |-> "all_nbest", indent |-> 4], "\n" >>]
PredictionsJson ==
  [path |-> <<"output_bioasq", "/", "predictions.json">>, mode |-> "w",
   data |-> << [json |-> "all_predictions", indent |-> 4], "\n" >>]

\* inference or decoding has raised
PredictionRaised ==
  /\ raised.by = "library"
  /\ raised.arg \in {<<"infer">>, <<"np.split">>, <<"get_predictions">>}
  /\ First("train") > 0

\* C15: the qa notebook's code writes at most two files, <work_dir>/nbest.json
\* first and <work_dir>/predictions.json second, each opened with mode "w"
\* and given one JSON document followed by a newline; once the prediction
\* cell has completed it has written exactly these two; when inference or
\* decoding raised it has written to neither.
C15_TwoPredictionFiles ==
  nb = "qa" =>
    /\ written \in {<<>>, <<NbestJson>>, <<NbestJson, PredictionsJson>>}
    /\ First("write predictions") > 0 <=> written = <<NbestJson, PredictionsJson>>
    /\ cell \in {"head_test", "head_nbest", "grep_golden", "clone", "transform",
                 "evaluate", "done"} => written = <<NbestJson, PredictionsJson>>
    /\ PredictionRaised => written = <<>>

\* the prediction cell has completed and both files are written
C15_Witness ==
  /\ nb = "qa"
  /\ cell = "head_test"
  /\ written = <<NbestJson, PredictionsJson>>

\* path is one of the documented files of ./datasets/BioASQ
Documented(path) ==
  \E f \in DocumentedFiles : path = <<".", "/", "datasets", "/", "BioASQ", "/">> \o f

\* C17: every corpus path the qa notebook builds, the training file and the
\* test file for test_dataset "6b" and an index from 1 to 5, is one of the
\* files the notebook documents under ./datasets/BioASQ.
C17_CorpusPathsDocumented ==
  nb = "qa" =>
    /\ train_file # <<>> => Documented(train_file)
    /\ test_file # <<>> => Documented(test_file)

----------------------------------------------------------------------------
(* Decoding in the punctuation notebook. *)

\* the predictions the mask selects for the k-th query
Chosen(k) == SelectSeq(evaluated[k], LAMBDA t : t.mask = 1)

\* the label strings of the j-th selected prediction of the k-th query
PunctLabel(k, j) == IF Chosen(k)[j].punct = 0 THEN "O" ELSE ","
CapitLabel(k, j) == IF Chosen(k)[j].capit = 0 THEN "O" ELSE "U"

\* the j-th token the claim expects for the k-th query
ExpectedToken(k, j) ==
  (IF CapitLabel(k, j) # "O" THEN Capitalize(Split(queries[k])[j])
   ELSE Split(queries[k])[j])
  \o (IF PunctLabel(k, j) # "O" THEN <<PunctLabel(k, j)>> ELSE <<>>)

\* the text of a printed 'Combined: ...' line
CombinedText(line) == Tail(line)

\* the text with the appended punctuation labels deleted (no query of the
\* model holds a comma)
Unpunctuated(text) == SelectSeq(text, LAMBDA c : c # ",")

\* no leading, trailing or repeated whitespace
SingleSpaced(s) ==
  /\ s = Strip(s)
  /\ \A k \in 1..(Len(s) - 1) : ~(IsSpace(s[k]) /\ IsSpace(s[k + 1]))

\* the loop has decoded its one query, whose selected predictions number
\* its words
DecodedOne ==
  /\ Len(queries) = 1
  /\ Len(printed) = 3
  /\ Len(Chosen(1)) = Len(Split(queries[1]))

\* the 'Combined' line has the query's number of tokens, each the word,
\* capitalized iff the capitalization label is not 'O', followed by the
\* punctuation label iff that is not 'O'
TokensAsPredicted ==
  LET tokens == Split(CombinedText(printed[2]))
  IN  /\ printed[2][1] = "Combined: "
      /\ Len(tokens) = Len(Split(queries[1]))
      /\ \A j \in 1..Len(tokens) : tokens[j] = ExpectedToken(1, j)

\* C16 as stated: for a query whose selected predictions number its words,
\* the 'Combined' line is token by token as predicted, and for an
\* all-lowercase query, deleting the appended labels and lowercasing the
\* output gives back the query.  Refuted: the words are taken with
\* query.strip().split() and joined by single blanks, so a query with
\* leading, trailing or repeated whitespace does not come back.
C16_DecodeGivesBackQuery ==
  DecodedOne =>
    /\ TokensAsPredicted
    /\ LowerCase(queries[1]) = queries[1] =>
         LowerCase(Unpunctuated(CombinedText(printed[2]))) = queries[1]

\* C16, amended: the 'Combined' line is token by token as predicted, and
\* for an all-lowercase query, deleting the appended labels and lowercasing
\* the output gives back the words of the query, and the query itself when
\* its words are separated by single blanks and nothing surrounds them.
C16_DecodeGivesBackWords ==
  DecodedOne =>
    /\ TokensAsPredicted
    /\ LowerCase(queries[1]) = queries[1] =>
         /\ Split(LowerCase(Unpunctuated(CombinedText(printed[2])))) = Split(queries[1])
         /\ SingleSpaced(queries[1]) =>
              LowerCase(Unpunctuated(CombinedText(printed[2]))) = queries[1]

\* the query 'a a' comes out as 'A, a'
C16_Witness ==
  /\ DecodedOne
  /\ queries[1] = <<"a", " ", "a">>
  /\ CombinedText(printed[2]) = <<"A", ",", " ", "a">>

\* the k-th query's selected predictions do not number its words
Mismatch(k) == Len(Chosen(k)) # Len(Split(queries[k]))

\* the first query of the list with a mismatch; 0 when there is none
FirstMismatch ==
  IF \A k \in 1..Len(queries) : ~Mismatch(k) THEN 0
  ELSE CHOOSE k \in 1..Len(queries) : Mismatch(k) /\ \A j \in 1..(k - 1) : ~Mismatch(j)

\* the decode cell of the punctuation notebook has reached its loop
LoopEntered == nb = "punct" /\ First("np.argmax") > 0

\* the queries before the m-th have each had their 'Query:' and 'Combined:'
\* lines (and the empty line after them) printed, in list order
EarlierPrinted(m) ==
  \A k \in 1..(m - 1) :
    /\ printed[3 * k - 2] = <<"Query: ">> \o queries[k]
    /\ printed[3 * k - 1][1] = "Combined: "
    /\ printed[3 * k] = <<>>

\* C20: the decode loop stops with ValueError('Pred and words must be of the
\* same length') exactly at the first query of the list whose selected
\* predictions do not number its words: that query's 'Query:' line is the
\* last line printed, its 'Combined:' line is not printed, every earlier
\* query has both lines printed, and no later query is processed.  The loop
\* never goes past such a query, and it ends normally only when there is none.
C20_ValueErrorAtFirstMismatch ==
  LoopEntered =>
    /\ raised.type = "ValueError" <=> (cell = "stopped" /\ FirstMismatch > 0)
    /\ raised.type = "ValueError" =>
         /\ raised.arg = <<"Pred and words must be of the same length">>
         /\ loop_i = FirstMismatch
         /\ Len(printed) = 3 * (FirstMismatch - 1) + 1
         /\ printed[Len(printed)] = <<"Query: ">> \o queries[FirstMismatch]
         /\ EarlierPrinted(FirstMismatch)
    /\ cell = "decode_loop" =>
         /\ FirstMismatch = 0 \/ loop_i <= FirstMismatch
         /\ Len(printed) = 3 * (loop_i - 1)
         /\ EarlierPrinted(loop_i)
    /\ cell = "done" =>
         /\ FirstMismatch = 0
         /\ Len(printed) = 3 * Len(queries)
         /\ EarlierPrinted(Len(queries) + 1)

\* two queries: the first is decoded, the second has one prediction too
\* many and stops the loop
C20_Witness ==
  /\ LoopEntered
  /\ Len(queries) = 2
  /\ ~Mismatch(1)
  /\ Len(Chosen(2)) > Len(Split(queries[2]))
  /\ raised.type = "ValueError"
  /\ Len(printed) = 4

----------------------------------------------------------------------------
(* Steps of the learning-rate policy. *)

\* floor(n / d) for n >= 0, d > 0
Floor(n, d) == CHOOSE q \in 0..n : q * d <= n /\ n < (q + 1) * d

\* num_epochs, batch_size and batches_per_step as the claim reads them
ClaimedEpochs == CASE nb = "qa" -> 5 [] nb = "re" -> 3 [] OTHER -> 10
ClaimedBatch == CASE nb = "qa" -> 12 [] nb = "re" -> 32 [] OTHER -> 128 * 1

\* C19: in each notebook the total steps given to the lr policy are
\* num_epochs * floor(N / (batch_size * batches_per_step)), N being
\* len(train_data_layer); they are 0 when N is less than one batch; and in
\* the punctuation notebook eval_step is the same per-epoch value.
C19_LrTotalSteps ==
  /\ lr_total_steps # -1 =>
       /\ train_data_size >= 0
       /\ lr_total_steps = ClaimedEpochs * Floor(train_data_size, ClaimedBatch)
       /\ train_data_size < ClaimedBatch => lr_total_steps = 0
  /\ (nb = "punct" /\ eval_step # -1) =>
       /\ eval_step = Floor(train_data_size, ClaimedBatch)
       /\ lr_total_steps # -1 => lr_total_steps = ClaimedEpochs * eval_step

\* the punctuation notebook with 127 training examples: 0 steps, eval_step 0
C19_Witness ==
  /\ nb = "punct"
  /\ train_data_size = 127
  /\ lr_total_steps = 0
  /\ eval_step = 0

----------------------------------------------------------------------------
(* Steps of the durs script. *)

\* x = y, both read as natural numbers
Same(x, y) == ~Less(x, y) /\ ~Less(y, x)

\* batch_size * NUM_GPU as the claim means it: the exact product
PerStep == Product(Product(<<6>>, calc.GPU_MEM), calc.NUM_GPU)

\* ceil(size / perStep), from passes = <<floor, remainder>> of the division
Ceil(passes) ==
  IF IsZero(passes[2]) THEN passes[1] ELSE Plus(passes[1], <<1>>, Len(passes[1]) + 1)

\* total_steps is as the claim says: at least fullPasses = NUM_EPOCHS *
\* ceil(DATASET_SIZE / perStep), equal to it when the division leaves a
\* remainder, NUM_EPOCHS more when it leaves none
Covers(total, epochs, passes, fullPasses) ==
  /\ total # Unset
  /\ ~Negative(total)
  /\ ~Less(total, fullPasses)
  /\ ~IsZero(passes[2]) => Same(total, fullPasses)
  /\ IsZero(passes[2]) => Same(total, Plus(fullPasses, epochs, Len(fullPasses) + 1))

StepsCoverDataset ==
  LET passes == DivMod(calc.DATASET_SIZE, PerStep)
  IN  Covers(calc.total_steps, calc.NUM_EPOCHS, passes,
             Product(calc.NUM_EPOCHS, Ceil(passes)))

\* lines 51-52 have run
Computed == calc.batch_size # Unset

\* no operation of lines 51-52 leaves the range of a shell integer
NothingWraps ==
  LET floor == DivMod(calc.DATASET_SIZE, PerStep)[1]
  IN  /\ Fits(PerStep)
      /\ Fits(Product(Plus(floor, <<1>>, Len(floor) + 1), calc.NUM_EPOCHS))

C18_LargeWitness ==
  /\ calc.DATASET_SIZE = Wrap(Times(ShellInt(12), Pow2(59), IntmaxBytes))
  /\ calc.GPU_MEM = ShellInt(1)
  /\ calc.NUM_GPU = ShellInt(1)
  /\ calc.NUM_EPOCHS = ShellInt(2)
  /\ NothingWraps
  /\ calc.total_steps = Plus(Pow2(61), ShellInt(2), IntmaxBytes)

\* 2^62 epochs of 3 steps: total_steps wraps to -2^62
C18_WrapsNegative ==
  /\ calc.DATASET_SIZE = ShellInt(12)
  /\ calc.NUM_EPOCHS = Pow2(62)
  /\ calc.total_steps = Negate(Pow2(62))

\* GPU_MEM 2^62 on 2 GPUs: batch_size * NUM_GPU wraps to 0, division by 0
C18_DivisionByZero ==
  /\ calc.GPU_MEM = Pow2(62)
  /\ calc.NUM_GPU = ShellInt(2)
  /\ Computed
  /\ calc.total_steps = Unset

----------------------------------------------------------------------------
(* The checkpoints that inference restores. *)

\* nf.infer has been called
InferenceCalled == checkpoint_dir # None

C26_QaWitness ==
  /\ nb = "qa"
  /\ InferenceCalled
  /\ Last("infer") > First("train")
  /\ ckpt_callback.folder = WorkDir \o <<"/", "checkpoints">>

============================================================================
